---- MODULE Spec2Model ----
(***************************************************************************)
(* DataGuardian backend: the analysis orchestrator (siteController.js      *)
(* analyzeSite), the crawler (trackerService.js detectTrackers), the       *)
(* summary synthesizer (geminiService.js generateAIPrivacySummary) and the *)
(* score calculator, as a state machine of concurrent requests over the    *)
(* shared store, the shared AI memo cache and the wall clock.              *)
(*                                                                         *)
(* JavaScript runs one handler at a time: an action is the code between    *)
(* two awaits.  Strings that the code searches (includes, startsWith,      *)
(* regular expressions, sort) are sequences of characters, and the         *)
(* searches are computed on them.                                          *)
(***************************************************************************)
EXTENDS Integers, Sequences, FiniteSets

\* ------------------------------------------------------------------ bounds
\* Number of analyzeSite requests the model issues.
MaxReq == 2
\* Number of times the wall clock is advanced.
MaxTicks == 1
\* Number of direct detectTrackers calls (specification SpecDetect).
MaxDetect == 2
\* Number of direct generateAIPrivacySummary calls (specification SpecSum).
MaxCalls == 2

\* ----------------------------------------------------------------- strings
\* A string the code searches is the sequence of its characters.

\* String.prototype.includes
Includes(hay, needle) ==
  \E i \in 0..(Len(hay) - Len(needle)) :
    SubSeq(hay, i + 1, i + Len(needle)) = needle

\* String.prototype.startsWith
StartsWith(hay, prefix) ==
  /\ Len(prefix) <= Len(hay)
  /\ SubSeq(hay, 1, Len(prefix)) = prefix

\* The characters of the model's strings in UTF-16 code unit order.
Alphabet ==
  << " ", "-", ".", "/", "0", "1", "2", "3", "4", "5", "6", "7", "8", "9", ":",
     "A", "B", "C", "D", "E", "F", "G", "H", "I", "J", "K", "L", "M", "N", "O",
     "P", "Q", "R", "S", "T", "U", "V", "W", "X", "Y", "Z", "_",
     "a", "b", "c", "d", "e", "f", "g", "h", "i", "j", "k", "l", "m", "n", "o",
     "p", "q", "r", "s", "t", "u", "v", "w", "x", "y", "z" >>

Code(c) == CHOOSE i \in 1..Len(Alphabet) : Alphabet[i] = c

Digits == {"0", "1", "2", "3", "4", "5", "6", "7", "8", "9"}

\* String.prototype.toLowerCase, one character.
LowerChar(c) ==
  IF Code(c) >= Code("A") /\ Code(c) <= Code("Z")
    THEN Alphabet[Code(c) - Code("A") + Code("a")]
    ELSE c

ToLower(cs) == [i \in 1..Len(cs) |-> LowerChar(cs[i])]

\* The default Array.prototype.sort order: code units, left to right.
RECURSIVE StrLess(_, _)
StrLess(a, b) ==
  IF a = <<>> THEN b # <<>>
  ELSE IF b = <<>> THEN FALSE
  ELSE IF Code(Head(a)) # Code(Head(b)) THEN Code(Head(a)) < Code(Head(b))
  ELSE StrLess(Tail(a), Tail(b))

\* Insert string x into the sorted sequence s.
RECURSIVE InsertSorted(_, _)
InsertSorted(x, s) ==
  IF s = <<>> THEN <<x>>
  ELSE IF StrLess(x, Head(s)) THEN <<x>> \o s
  ELSE <<Head(s)>> \o InsertSorted(x, Tail(s))

\* trackers.sort() / Array.from(set).sort()
RECURSIVE SortStrings(_)
SortStrings(s) == IF s = <<>> THEN <<>> ELSE InsertSorted(Head(s), SortStrings(Tail(s)))

\* Array.from(set): the elements of a set in some order, then sorted.
RECURSIVE SetToSortedSeq(_)
SetToSortedSeq(S) ==
  IF S = {} THEN <<>>
  ELSE LET x == CHOOSE y \in S : TRUE
       IN InsertSorted(x, SetToSortedSeq(S \ {x}))

Range(s) == {s[i] : i \in 1..Len(s)}

\* Array.prototype.slice(0, n)
Take(s, n) == SubSeq(s, 1, IF Len(s) < n THEN Len(s) ELSE n)

Min(a, b) == IF a < b THEN a ELSE b

\* ------------------------------------------------- trackerService.js, data
TRACKER_DOMAINS ==
  << <<"g","o","o","g","l","e","-","a","n","a","l","y","t","i","c","s",".","c","o","m">>,
     <<"g","o","o","g","l","e","t","a","g","m","a","n","a","g","e","r",".","c","o","m">>,
     <<"g","o","o","g","l","e","a","d","s","e","r","v","i","c","e","s",".","c","o","m">>,
     <<"g","o","o","g","l","e","-","a","n","a","l","y","t","i","c","s",".","c","o","m">>,
     <<"f","a","c","e","b","o","o","k",".","n","e","t">>,
     <<"c","o","n","n","e","c","t",".","f","a","c","e","b","o","o","k",".","n","e","t">>,
     <<"f","a","c","e","b","o","o","k",".","c","o","m">>,
     <<"t","w","i","t","t","e","r",".","c","o","m">>,
     <<"a","d","s","-","t","w","i","t","t","e","r",".","c","o","m">>,
     <<"l","i","n","k","e","d","i","n",".","c","o","m">>,
     <<"s","n","a","p","c","h","a","t",".","c","o","m">>,
     <<"p","i","n","t","e","r","e","s","t",".","c","o","m">>,
     <<"t","i","k","t","o","k",".","c","o","m">>,
     <<"d","o","u","b","l","e","c","l","i","c","k",".","n","e","t">>,
     <<"g","o","o","g","l","e","s","y","n","d","i","c","a","t","i","o","n",".","c","o","m">>,
     <<"a","d","s","e","r","v","i","c","e",".","g","o","o","g","l","e",".","c","o","m">>,
     <<"a","d","s",".","g","o","o","g","l","e",".","c","o","m">>,
     <<"a","d","n","x","s",".","c","o","m">>,
     <<"a","m","a","z","o","n","-","a","d","s","y","s","t","e","m",".","c","o","m">>,
     <<"c","r","i","t","e","o",".","c","o","m">>,
     <<"o","u","t","b","r","a","i","n",".","c","o","m">>,
     <<"t","a","b","o","o","l","a",".","c","o","m">>,
     <<"a","d","r","o","l","l",".","c","o","m">>,
     <<"r","u","b","i","c","o","n","p","r","o","j","e","c","t",".","c","o","m">>,
     <<"p","u","b","m","a","t","i","c",".","c","o","m">>,
     <<"o","p","e","n","x",".","n","e","t">>,
     <<"a","d","s","y","s","t","e","m",".","c","o","m">>,
     <<"s","e","g","m","e","n","t",".","c","o","m">>,
     <<"m","i","x","p","a","n","e","l",".","c","o","m">>,
     <<"a","m","p","l","i","t","u","d","e",".","c","o","m">>,
     <<"h","o","t","j","a","r",".","c","o","m">>,
     <<"f","u","l","l","s","t","o","r","y",".","c","o","m">>,
     <<"l","o","g","r","o","c","k","e","t",".","c","o","m">>,
     <<"o","p","t","i","m","i","z","e","l","y",".","c","o","m">>,
     <<"m","o","u","s","e","f","l","o","w",".","c","o","m">>,
     <<"s","c","o","r","e","c","a","r","d","r","e","s","e","a","r","c","h",".","c","o","m">>,
     <<"q","u","a","n","t","s","e","r","v","e",".","c","o","m">>,
     <<"c","o","m","s","c","o","r","e",".","c","o","m">>,
     <<"d","e","m","d","e","x",".","n","e","t">>,
     <<"a","d","s","r","v","r",".","o","r","g">>,
     <<"t","u","r","n",".","c","o","m">>,
     <<"e","y","e","o","t","a",".","n","e","t">>,
     <<"b","l","u","e","k","a","i",".","c","o","m">>,
     <<"c","h","a","r","t","b","e","a","t",".","c","o","m">>,
     <<"c","l","i","c","k","t","a","l","e",".","n","e","t">>,
     <<"d","o","u","b","l","e","v","e","r","i","f","y",".","c","o","m">>,
     <<"m","a","t","h","t","a","g",".","c","o","m">>,
     <<"s","h","a","r","e","t","h","i","s",".","c","o","m">>,
     <<"a","d","d","t","h","i","s",".","c","o","m">>,
     <<"t","r","u","s","t","a","r","c",".","c","o","m">>,
     <<"a","d","f","o","r","m",".","n","e","t">>,
     <<"b","i","n","g",".","c","o","m">>,
     <<"y","a","h","o","o",".","c","o","m">> >>

\* TRACKER_PATTERNS and trackerUrlPatterns are regular expressions; each is
\* matched as the code's RegExp.test does.

\* /<word>\d+\./ when atLeastOne, /<word>\d*\./ otherwise
RECURSIVE DigitsThenDot(_, _, _)
DigitsThenDot(cs, i, seen) ==
  IF i > Len(cs) THEN FALSE
  ELSE IF cs[i] \in Digits THEN DigitsThenDot(cs, i + 1, TRUE)
  ELSE cs[i] = "." /\ seen

MatchWordDigitsDot(cs, word, atLeastOne) ==
  \E i \in 0..(Len(cs) - Len(word)) :
    /\ SubSeq(cs, i + 1, i + Len(word)) = word
    /\ DigitsThenDot(cs, i + Len(word) + 1, ~atLeastOne)

MatchesTrackerPattern(domain) ==
  \/ Includes(domain, <<".","a","d","s",".">>)
  \/ Includes(domain, <<".","a","n","a","l","y","t","i","c","s",".">>)
  \/ Includes(domain, <<".","t","r","a","c","k","i","n","g",".">>)
  \/ Includes(domain, <<".","m","e","t","r","i","c","s",".">>)
  \/ Includes(domain, <<".","t","e","l","e","m","e","t","r","y",".">>)
  \/ MatchWordDigitsDot(domain, <<"a","d","s">>, TRUE)
  \/ MatchWordDigitsDot(domain, <<"t","r","a","c","k">>, FALSE)
  \/ Includes(domain, <<"c","o","l","l","e","c","t",".">>)
  \/ Includes(domain, <<"p","i","x","e","l",".">>)
  \/ Includes(domain, <<"b","e","a","c","o","n",".">>)

\* trackerUrlPatterns, all case-insensitive
MatchesTrackerUrlPattern(url) ==
  LET u == ToLower(url)
  IN \/ Includes(u, <<"/","a","n","a","l","y","t","i","c","s">>)
     \/ Includes(u, <<"/","t","r","a","c","k","i","n","g">>)
     \/ Includes(u, <<"/","c","o","l","l","e","c","t">>)
     \/ Includes(u, <<"/","b","e","a","c","o","n">>)
     \/ Includes(u, <<"/","p","i","x","e","l">>)
     \/ Includes(u, <<"/","t","r","a","c","k">>)
     \/ Includes(u, <<"/","m","e","t","r","i","c">>)
     \/ Includes(u, <<"/","t","e","l","e","m","e","t","r","y">>)
     \/ Includes(u, <<"g","t","a","g">>)
     \/ Includes(u, <<"g","t","m">>)
     \/ Includes(u, <<"f","b","e","v","e","n","t","s">>)
     \/ Includes(u, <<"d","o","u","b","l","e","c","l","i","c","k">>)

IsKnownTracker(domain) ==
  \E i \in 1..Len(TRACKER_DOMAINS) :
    Includes(domain, ToLower(TRACKER_DOMAINS[i]))

\* An isTracker without the first-party skip.
isTrackerFirstPartyToo(url, domain, mainDomain, includeFirstParty) ==
  IF IsKnownTracker(domain) THEN TRUE
  ELSE IF MatchesTrackerPattern(domain) THEN TRUE
  ELSE MatchesTrackerUrlPattern(url)

\* isTracker(url, domain, mainDomain, includeFirstParty), on strings
isTracker(url, domain, mainDomain, includeFirstParty) ==
  IF ~includeFirstParty /\ domain = mainDomain THEN FALSE
  ELSE IF IsKnownTracker(domain) THEN TRUE
  ELSE IF MatchesTrackerPattern(domain) THEN TRUE
  ELSE MatchesTrackerUrlPattern(url)

\* ------------------------------------------------------------ URL parsing
\* null, where the code holds no string message
Null == "null"

\* null, where the code holds no URL or hostname: no sequence of characters
NullString == <<"null">>

\* Position of the first "/" of cs at or after index i, Len(cs) + 1 if none.
RECURSIVE SlashFrom(_, _)
SlashFrom(cs, i) ==
  IF i > Len(cs) THEN i
  ELSE IF cs[i] = "/" THEN i
  ELSE SlashFrom(cs, i + 1)

SchemeLen(cs) ==
  IF StartsWith(cs, <<"h","t","t","p","s",":","/","/">>) THEN Len(<<"h","t","t","p","s",":","/","/">>)
  ELSE IF StartsWith(cs, <<"h","t","t","p",":","/","/">>) THEN Len(<<"h","t","t","p",":","/","/">>)
  ELSE 0

\* new URL(url) succeeds: an absolute http(s) URL with a host.
IsValidUrl(url) ==
  SchemeLen(url) > 0 /\ SlashFrom(url, SchemeLen(url) + 1) > SchemeLen(url) + 1

\* new URL(url).hostname, for a valid URL (the parser lower-cases the host).
Hostname(url) ==
  ToLower(SubSeq(url, SchemeLen(url) + 1, SlashFrom(url, SchemeLen(url) + 1) - 1))

\* extractDomain(url)
extractDomain(url) == IF IsValidUrl(url) THEN Hostname(url) ELSE NullString

\* --------------------------------------------------- geminiService.js
CACHE_EXPIRY == 24 * 60 * 60 * 1000

\* A summary field as JSON.parse may deliver it: an array or a string.
Arr(items) == [t |-> "array", v |-> items]
Txt(s) == [t |-> "string", v |-> <<s>>]

\* x || []
OrEmpty(f) == IF f.t = "array" THEN f.v ELSE <<>>

rules ==
  <<
     [alts |-> << <<"d","o","u","b","l","e","c","l","i","c","k">>,
                  <<"g","o","o","g","l","e","s","y","n","d","i","c","a","t","i","o","n">>,
                  <<"g","o","o","g","l","e","a","d","s","e","r","v","i","c","e","s">>,
                  <<"a","d","s",".","g","o","o","g","l","e">>,
                  <<"a","d","s","e","r","v","i","c","e",".","g","o","o","g","l","e">> >>,
      name |-> <<"G","o","o","g","l","e"," ","A","d","s">>,
      category |-> "Advertising", company |-> "Google"],
     [alts |-> << <<"g","o","o","g","l","e","t","a","g","m","a","n","a","g","e","r">>,
                  <<"g","t","m">> >>,
      name |-> <<"G","o","o","g","l","e"," ","T","a","g"," ","M","a","n","a","g","e","r">>,
      category |-> "Tag Manager", company |-> "Google"],
     [alts |-> << <<"g","o","o","g","l","e","-","a","n","a","l","y","t","i","c","s">>,
                  <<"a","n","a","l","y","t","i","c","s",".","g","o","o","g","l","e">> >>,
      name |-> <<"G","o","o","g","l","e"," ","A","n","a","l","y","t","i","c","s">>,
      category |-> "Analytics", company |-> "Google"],
     [alts |-> << <<"g","s","t","a","t","i","c">>,
                  <<"g","o","o","g","l","e","a","p","i","s">> >>,
      name |-> <<"G","o","o","g","l","e"," ","S","t","a","t","i","c","/","S","e","r","v","i","c","e","s">>,
      category |-> "CDN/Utility", company |-> "Google"],
     [alts |-> << <<".","g","o","o","g","l","e",".">> >>,
      name |-> <<"G","o","o","g","l","e"," ","S","e","r","v","i","c","e","s">>,
      category |-> "CDN/Utility", company |-> "Google"],
     [alts |-> << <<"f","a","c","e","b","o","o","k">>,
                  <<"f","b","c","d","n">>,
                  <<"f","b","e","v","e","n","t","s">>,
                  <<"c","o","n","n","e","c","t",".","f","a","c","e","b","o","o","k",".","n","e","t">> >>,
      name |-> <<"M","e","t","a"," ","P","i","x","e","l">>,
      category |-> "Advertising", company |-> "Meta"],
     [alts |-> << <<"i","n","s","t","a","g","r","a","m",".","c","o","m">> >>,
      name |-> <<"I","n","s","t","a","g","r","a","m">>,
      category |-> "Social", company |-> "Meta"],
     [alts |-> << <<"l","i","n","k","e","d","i","n">>,
                  <<"l","i","c","d","n">>,
                  <<"b","a","t",".","b","i","n","g",".","c","o","m">>,
                  <<"b","i","n","g","a","d","s">> >>,
      name |-> <<"M","i","c","r","o","s","o","f","t"," ","A","d","s","/","L","i","n","k","e","d","I","n">>,
      category |-> "Advertising", company |-> "Microsoft"],
     [alts |-> << <<"t","w","i","t","t","e","r">>,
                  <<"t","i","k","t","o","k">>,
                  <<"s","n","a","p","c","h","a","t">>,
                  <<"p","i","n","t","e","r","e","s","t">> >>,
      name |-> <<"S","o","c","i","a","l"," ","N","e","t","w","o","r","k">>,
      category |-> "Social", company |-> "Various"],
     [alts |-> << <<"a","d","n","x","s">>,
                  <<"a","p","p","n","e","x","u","s">> >>,
      name |-> <<"A","p","p","N","e","x","u","s"," ","(","A","d","n","x","s",")">>,
      category |-> "Advertising", company |-> "Microsoft (Xandr)"],
     [alts |-> << <<"r","u","b","i","c","o","n","p","r","o","j","e","c","t">> >>,
      name |-> <<"R","u","b","i","c","o","n"," ","P","r","o","j","e","c","t"," ","(","M","a","g","n","i","t","e",")">>,
      category |-> "Advertising", company |-> "Magnite"],
     [alts |-> << <<"p","u","b","m","a","t","i","c">> >>,
      name |-> <<"P","u","b","M","a","t","i","c">>,
      category |-> "Advertising", company |-> "PubMatic"],
     [alts |-> << <<"c","r","i","t","e","o">> >>,
      name |-> <<"C","r","i","t","e","o">>,
      category |-> "Advertising", company |-> "Criteo"],
     [alts |-> << <<"t","a","b","o","o","l","a">> >>,
      name |-> <<"T","a","b","o","o","l","a">>,
      category |-> "Advertising", company |-> "Taboola"],
     [alts |-> << <<"o","u","t","b","r","a","i","n">> >>,
      name |-> <<"O","u","t","b","r","a","i","n">>,
      category |-> "Advertising", company |-> "Outbrain"],
     [alts |-> << <<"o","p","e","n","x">> >>,
      name |-> <<"O","p","e","n","X">>,
      category |-> "Advertising", company |-> "OpenX"],
     [alts |-> << <<"a","d","r","o","l","l">> >>,
      name |-> <<"A","d","R","o","l","l">>,
      category |-> "Advertising", company |-> "NextRoll"],
     [alts |-> << <<"m","i","x","p","a","n","e","l">> >>,
      name |-> <<"M","i","x","p","a","n","e","l">>,
      category |-> "Analytics", company |-> "Mixpanel"],
     [alts |-> << <<"s","e","g","m","e","n","t",".","c","o","m">> >>,
      name |-> <<"S","e","g","m","e","n","t">>,
      category |-> "Analytics", company |-> "Twilio Segment"],
     [alts |-> << <<"a","m","p","l","i","t","u","d","e">> >>,
      name |-> <<"A","m","p","l","i","t","u","d","e">>,
      category |-> "Analytics", company |-> "Amplitude"],
     [alts |-> << <<"h","o","t","j","a","r">> >>,
      name |-> <<"H","o","t","j","a","r">>,
      category |-> "Analytics", company |-> "Hotjar"],
     [alts |-> << <<"f","u","l","l","s","t","o","r","y">> >>,
      name |-> <<"F","u","l","l","S","t","o","r","y">>,
      category |-> "Analytics", company |-> "FullStory"],
     [alts |-> << <<"l","o","g","r","o","c","k","e","t">> >>,
      name |-> <<"L","o","g","R","o","c","k","e","t">>,
      category |-> "Analytics", company |-> "LogRocket"],
     [alts |-> << <<"o","p","t","i","m","i","z","e","l","y">> >>,
      name |-> <<"O","p","t","i","m","i","z","e","l","y">>,
      category |-> "Analytics", company |-> "Optimizely"],
     [alts |-> << <<"m","o","u","s","e","f","l","o","w">> >>,
      name |-> <<"M","o","u","s","e","f","l","o","w">>,
      category |-> "Analytics", company |-> "Mouseflow"],
     [alts |-> << <<"c","h","a","r","t","b","e","a","t">> >>,
      name |-> <<"C","h","a","r","t","b","e","a","t">>,
      category |-> "Analytics", company |-> "Chartbeat"],
     [alts |-> << <<"c","l","i","c","k","t","a","l","e">> >>,
      name |-> <<"C","l","i","c","k","t","a","l","e">>,
      category |-> "Analytics", company |-> "Clicktale"],
     [alts |-> << <<"m","a","t","h","t","a","g">> >>,
      name |-> <<"M","e","d","i","a","M","a","t","h"," ","(","m","a","t","h","t","a","g",")">>,
      category |-> "Advertising", company |-> "MediaMath"],
     [alts |-> << <<"d","o","u","b","l","e","v","e","r","i","f","y">> >>,
      name |-> <<"D","o","u","b","l","e","V","e","r","i","f","y">>,
      category |-> "Advertising", company |-> "DoubleVerify"],
     [alts |-> << <<"s","c","o","r","e","c","a","r","d","r","e","s","e","a","r","c","h",".","c","o","m">> >>,
      name |-> <<"S","c","o","r","e","c","a","r","d","R","e","s","e","a","r","c","h">>,
      category |-> "Advertising", company |-> "Comscore"],
     [alts |-> << <<"c","o","m","s","c","o","r","e",".","c","o","m">> >>,
      name |-> <<"C","o","m","s","c","o","r","e">>,
      category |-> "Advertising", company |-> "Comscore"],
     [alts |-> << <<"q","u","a","n","t","s","e","r","v","e",".","c","o","m">> >>,
      name |-> <<"Q","u","a","n","t","s","e","r","v","e">>,
      category |-> "Advertising", company |-> "Quantcast"],
     [alts |-> << <<"d","e","m","d","e","x",".","n","e","t">> >>,
      name |-> <<"A","d","o","b","e"," ","E","x","p","e","r","i","e","n","c","e"," ","C","l","o","u","d"," ","(","D","e","m","d","e","x",")">>,
      category |-> "Advertising", company |-> "Adobe"],
     [alts |-> << <<"a","d","s","r","v","r",".","o","r","g">> >>,
      name |-> <<"T","h","e"," ","T","r","a","d","e"," ","D","e","s","k">>,
      category |-> "Advertising", company |-> "The Trade Desk"],
     [alts |-> << <<"e","y","e","o","t","a",".","n","e","t">> >>,
      name |-> <<"E","y","e","o","t","a">>,
      category |-> "Advertising", company |-> "Eyeota"],
     [alts |-> << <<"b","l","u","e","k","a","i",".","c","o","m">> >>,
      name |-> <<"O","r","a","c","l","e"," ","B","l","u","e","K","a","i">>,
      category |-> "Advertising", company |-> "Oracle"],
     [alts |-> << <<"a","m","a","z","o","n","-","a","d","s","y","s","t","e","m",".","c","o","m">> >>,
      name |-> <<"A","m","a","z","o","n"," ","A","d","v","e","r","t","i","s","i","n","g">>,
      category |-> "Advertising", company |-> "Amazon"],
     [alts |-> << <<"b","o","u","n","c","e","x",".","n","e","t">>,
                  <<"w","u","n","d","e","r","k","i","n","d",".","c","o">> >>,
      name |-> <<"W","u","n","d","e","r","k","i","n","d"," ","(","B","o","u","n","c","e","X",")">>,
      category |-> "Advertising", company |-> "Wunderkind"],
     [alts |-> << <<"o","n","e","t","a","g",".","c","o","m">>,
                  <<"s","-","o","n","e","t","a","g",".","c","o","m">> >>,
      name |-> <<"O","n","e","T","a","g">>,
      category |-> "Advertising", company |-> "OneTag"],
     [alts |-> << <<"p","e","r","m","u","t","i","v","e">> >>,
      name |-> <<"P","e","r","m","u","t","i","v","e">>,
      category |-> "Advertising", company |-> "Permutive"],
     [alts |-> << <<"t","u","r","n","e","r",".","c","o","m">>,
                  <<"w","a","r","n","e","r","m","e","d","i","a","c","d","n",".","c","o","m">> >>,
      name |-> <<"T","u","r","n","e","r","/","W","a","r","n","e","r"," ","C","D","N">>,
      category |-> "CDN/Utility", company |-> "Warner Bros. Discovery"],
     [alts |-> << <<"c","o","l","l","e","c","t","o","r",".","g","i","t","h","u","b",".","c","o","m">> >>,
      name |-> <<"G","i","t","H","u","b"," ","T","e","l","e","m","e","t","r","y">>,
      category |-> "Analytics", company |-> "GitHub"],
     [alts |-> << <<"c","l","o","u","d","f","l","a","r","e","i","n","s","i","g","h","t","s",".","c","o","m">> >>,
      name |-> <<"C","l","o","u","d","f","l","a","r","e"," ","W","e","b"," ","A","n","a","l","y","t","i","c","s">>,
      category |-> "Analytics", company |-> "Cloudflare"],
     [alts |-> << <<"d","u","b","c","d","n",".","c","o","m">> >>,
      name |-> <<"D","u","b"," ","C","D","N">>,
      category |-> "CDN/Utility", company |-> "Dub"]
  >>

RuleMatches(r, lower) ==
  \E i \in 1..Len(r.alts) : Includes(lower, r.alts[i])

GenericKeywords ==
  << <<"a","n","a","l","y","t","i","c","s">>, <<"t","r","a","c","k">>, <<"c","o","l","l","e","c","t">>, <<"p","i","x","e","l">>, <<"b","e","a","c","o","n">>, <<"t","e","l","e","m","e","t","r","y">>, <<"m","e","t","r","i","c","s">> >>

\* Index of the last rule from i on that matches, 0 if none.
LastRule(lower, i) ==
  LET matching == {k \in i..Len(rules) : RuleMatches(rules[k], lower)}
  IN IF matching = {} THEN 0
     ELSE CHOOSE k \in matching : \A m \in matching : m <= k

\* Index of the first rule that matches, 0 if none.
RECURSIVE FirstRule(_, _)
FirstRule(lower, i) ==
  IF i > Len(rules) THEN 0
  ELSE IF RuleMatches(rules[i], lower) THEN i
  ELSE FirstRule(lower, i + 1)

classifyDomain(lower) ==
  LET i == FirstRule(lower, 1)
  IN IF i > 0
       THEN [name |-> rules[i].name, category |-> rules[i].category,
             company |-> rules[i].company]
     ELSE IF \E k \in 1..Len(GenericKeywords) :
               Includes(lower, GenericKeywords[k])
       THEN [name |-> <<"T","r","a","c","k","e","r">>, category |-> "Analytics", company |-> "Unknown"]
     ELSE [name |-> lower, category |-> "Unknown", company |-> "Unknown"]

buildTrackerDetails(trackers) ==
  [i \in 1..Len(trackers) |->
     LET info == classifyDomain(ToLower(trackers[i]))
     IN [domain |-> trackers[i], name |-> info.name,
         category |-> info.category, company |-> info.company]]

HasAny(trackers, needles) ==
  \E i \in 1..Len(trackers) : \E n \in needles :
    Includes(trackers[i], n)

\* createFallbackSummary(trackers, url); the caller checks IsValidUrl(url)
\* first, because new URL(url) raises otherwise.
createFallbackSummary(trackers, url) ==
  LET domain == Hostname(url)
      companies ==
        (IF HasAny(trackers, {<<"g","o","o","g","l","e">>}) THEN <<<<"G","o","o","g","l","e">>>> ELSE <<>>)
        \o (IF HasAny(trackers, {<<"f","a","c","e","b","o","o","k">>}) THEN <<<<"M","e","t","a","/","F","a","c","e","b","o","o","k">>>> ELSE <<>>)
        \o (IF HasAny(trackers, {<<"a","d","s">>, <<"d","o","u","b","l","e","c","l","i","c","k">>, <<"a","d","n","x","s">>})
              THEN <<<<"A","d","v","e","r","t","i","s","i","n","g"," ","N","e","t","w","o","r","k","s">>>> ELSE <<>>)
        \o (IF HasAny(trackers, {<<"a","n","a","l","y","t","i","c","s">>, <<"m","i","x","p","a","n","e","l">>, <<"h","o","t","j","a","r">>})
              THEN <<<<"A","n","a","l","y","t","i","c","s"," ","P","r","o","v","i","d","e","r","s">>>> ELSE <<>>)
      breakdown(tracker) ==
        IF Includes(tracker, <<"g","o","o","g","l","e">>)
          THEN <<tracker, ": Google's tracking service for analytics and advertising">>
        ELSE IF Includes(tracker, <<"f","a","c","e","b","o","o","k">>)
          THEN <<tracker, ": Meta's social media and advertising tracker">>
        ELSE IF Includes(tracker, <<"d","o","u","b","l","e","c","l","i","c","k">>)
          THEN <<tracker, ": Google's advertising network for targeted ads">>
        ELSE <<tracker, ": Third-party tracking and analytics service">>
  IN [whatTheyCollect |->
        Arr(<< <<"Browsing behavior and page views">>,
               <<"Device and browser information">>,
               <<"IP address and location data">> >>
            \o (IF Len(trackers) > 5
                  THEN << <<"User interactions and clicks">> >> ELSE <<>>)
            \o (IF Len(trackers) > 10
                  THEN << <<"Cross-site tracking data">> >> ELSE <<>>)),
      whoTheyShareWith |->
        Arr(IF Len(companies) > 0 THEN companies ELSE <<<<"T","h","i","r","d","-","p","a","r","t","y"," ","p","a","r","t","n","e","r","s">>>>),
      howLongTheyKeep |->
        Txt(IF Len(trackers) > 8 THEN "Up to 2 years or indefinitely"
                                 ELSE "Varies by service"),
      keyRisks |->
        Arr(<< <<"Your browsing on ", domain, " may be tracked across other websites">> >>
            \o (IF Len(trackers) > 5
                  THEN << <<"Detailed behavioral profiling for advertising">> >>
                  ELSE <<>>)
            \o (IF Len(trackers) > 10
                  THEN << <<"Extensive data sharing with multiple partners">> >>
                  ELSE <<>>)),
      trackerBreakdown |->
        Arr([i \in 1..Len(Take(trackers, 4)) |-> breakdown(trackers[i])])]

validateSummaryNineCollected(summary) ==
  [whatTheyCollect |->
     IF summary.whatTheyCollect.t = "array"
       THEN Arr(Take(summary.whatTheyCollect.v, 9))
       ELSE Arr(<< <<"Information not available">> >>),
   whoTheyShareWith |->
     IF summary.whoTheyShareWith.t = "array"
       THEN Arr(Take(summary.whoTheyShareWith.v, 10))
       ELSE Arr(<<<<"I","n","f","o","r","m","a","t","i","o","n"," ","n","o","t"," ","a","v","a","i","l","a","b","l","e">>>>),
   howLongTheyKeep |->
     IF summary.howLongTheyKeep.t = "string"
       THEN summary.howLongTheyKeep
       ELSE Txt("Information not available"),
   keyRisks |->
     IF summary.keyRisks.t = "array"
       THEN Arr(Take(summary.keyRisks.v, 6))
       ELSE Arr(<< <<"Privacy risks could not be determined">> >>),
   trackerBreakdown |->
     IF summary.trackerBreakdown.t = "array"
       THEN Arr(Take(summary.trackerBreakdown.v, 5))
       ELSE Arr(<<>>)]

validateSummary(summary) ==
  [whatTheyCollect |->
     IF summary.whatTheyCollect.t = "array"
       THEN Arr(Take(summary.whatTheyCollect.v, 8))
       ELSE Arr(<< <<"Information not available">> >>),
   whoTheyShareWith |->
     IF summary.whoTheyShareWith.t = "array"
       THEN Arr(Take(summary.whoTheyShareWith.v, 10))
       ELSE Arr(<<<<"I","n","f","o","r","m","a","t","i","o","n"," ","n","o","t"," ","a","v","a","i","l","a","b","l","e">>>>),
   howLongTheyKeep |->
     IF summary.howLongTheyKeep.t = "string"
       THEN summary.howLongTheyKeep
       ELSE Txt("Information not available"),
   keyRisks |->
     IF summary.keyRisks.t = "array"
       THEN Arr(Take(summary.keyRisks.v, 6))
       ELSE Arr(<< <<"Privacy risks could not be determined">> >>),
   trackerBreakdown |->
     IF summary.trackerBreakdown.t = "array"
       THEN Arr(Take(summary.trackerBreakdown.v, 5))
       ELSE Arr(<<>>)]

\* The summary of the missing-credential payload.
EmptySummary ==
  [whatTheyCollect |-> Arr(<<>>), whoTheyShareWith |-> Arr(<<>>),
   howLongTheyKeep |-> Txt("Information not available"),
   keyRisks |-> Arr(<<>>), trackerBreakdown |-> Arr(<<>>)]

\* The results of generateAIPrivacySummary: keys lists the properties the
\* returned object has.
UnavailableResponse ==
  [success |-> FALSE, note |-> "AI analysis unavailable - API key missing",
   summary |-> EmptySummary, trackerCount |-> 0, trackerDetails |-> <<>>,
   keys |-> {"success", "note", "summary"}]

FinalResponse(summary, trackers) ==
  [success |-> TRUE, note |-> Null,
   summary |-> validateSummary(summary), trackerCount |-> Len(trackers),
   trackerDetails |-> buildTrackerDetails(trackers),
   keys |-> {"success", "summary", "trackerCount", "trackerDetails", "rawResponse"}]

FailedResponse(trackers, url) ==
  [success |-> FALSE, note |-> "AI analysis failed",
   summary |-> createFallbackSummary(trackers, url), trackerCount |-> 0,
   trackerDetails |-> buildTrackerDetails(trackers),
   keys |-> {"success", "note", "summary", "trackerDetails"}]

\* Array.prototype.join: the parts with sep between them.
RECURSIVE Join(_, _)
Join(parts, sep) ==
  IF parts = <<>> THEN <<>>
  ELSE IF Len(parts) = 1 THEN Head(parts)
  ELSE Head(parts) \o sep \o Join(Tail(parts), sep)

\* cacheKey = `${url}_${trackers.sort().join(',')}`
CacheKey(url, trackers) == url \o <<"_">> \o Join(SortStrings(trackers), <<",">>)

\* A set that stores nothing.
MapSetDropped(cache, key, data, t) == cache

\* aiCache is a Map: a function on the keys that have an entry.
\* aiCache.set(key, {data, timestamp})
MapSet(cache, key, data, t) ==
  [k \in DOMAIN cache \cup {key} |->
     IF k = key THEN [data |-> data, timestamp |-> t] ELSE cache[k]]

\* A memo test that still serves an entry at exactly CACHE_EXPIRY.
MemoFreshInclusive(cache, key, t) ==
  key \in DOMAIN cache /\ t - cache[key].timestamp <= CACHE_EXPIRY

\* cached && Date.now() - cached.timestamp < CACHE_EXPIRY
MemoFresh(cache, key, t) ==
  key \in DOMAIN cache /\ t - cache[key].timestamp < CACHE_EXPIRY

\* A value not yet computed.
None == [none |-> TRUE]

\* A generateAIPrivacySummary that looks at the credential before the memo.
SummarizeSyncCredentialFirst(trackers, url, cache, credential, t) ==
  LET key == CacheKey(url, trackers)
  IN IF ~credential
       THEN [kind |-> "nokey", result |-> UnavailableResponse,
             cache |-> MapSet(cache, key, UnavailableResponse, t)]
     ELSE IF MemoFresh(cache, key, t)
       THEN [kind |-> "hit", result |-> cache[key].data, cache |-> cache]
     ELSE [kind |-> "await", result |-> None, cache |-> cache]

\* generateAIPrivacySummary up to its first await: the memo lookup and the
\* credential check.  kind: "hit" and "nokey" return result; "await" waits
\* for the external call.  trackers.sort() has sorted the caller's array.
SummarizeSync(trackers, url, cache, credential, t) ==
  LET key == CacheKey(url, trackers)
  IN IF MemoFresh(cache, key, t)
       THEN [kind |-> "hit", result |-> cache[key].data, cache |-> cache]
     ELSE IF ~credential
       THEN [kind |-> "nokey", result |-> UnavailableResponse,
             cache |-> MapSet(cache, key, UnavailableResponse, t)]
     ELSE [kind |-> "await", result |-> None, cache |-> cache]

\* generateAIPrivacySummary returns data: aiCache.set(cacheKey, ...) first
\* when memo.
Returned(data, memo, cache, key, t) ==
  [raised |-> FALSE, result |-> data,
   cache |-> IF memo THEN MapSet(cache, key, data, t) ELSE cache]

\* A generateAIPrivacySummary that treats text without a JSON object as a
\* failure of the external call.
SummarizeSettleTextFails(trackers, url, outcome, cache, t) ==
  IF outcome.kind = "json"
    THEN Returned(FinalResponse(outcome.parsed, trackers), TRUE,
                  cache, CacheKey(url, trackers), t)
  ELSE IF ~IsValidUrl(url)
    THEN [raised |-> TRUE, result |-> None, cache |-> cache]
  ELSE Returned(FailedResponse(trackers, url), FALSE,
                cache, CacheKey(url, trackers), t)

\* The outcomes of model.generateContent(prompt): a response whose text holds
\* a JSON object (parsed), a response with no parseable JSON, or an error.
\* generateAIPrivacySummary after the await, trackers already sorted: raised
\* (the call raises to its caller), or the result and the cache after it.
SummarizeSettle(trackers, url, outcome, cache, t) ==
  IF outcome.kind = "json"
    THEN Returned(FinalResponse(outcome.parsed, trackers), TRUE,
                  cache, CacheKey(url, trackers), t)
  ELSE IF ~IsValidUrl(url)
    \* createFallbackSummary raises in the parse handler, then again in the
    \* outer handler
    THEN [raised |-> TRUE, result |-> None, cache |-> cache]
  ELSE IF outcome.kind = "text"
    THEN Returned(FinalResponse(createFallbackSummary(trackers, url), trackers),
                  TRUE, cache, CacheKey(url, trackers), t)
  ELSE Returned(FailedResponse(trackers, url), FALSE,
                cache, CacheKey(url, trackers), t)
\* ------------------------------------------------- siteController.js, pure
\* req.body.simplifiedPolicy when the request carries none
Undefined == <<"undefined">>

positiveKeywords ==
  << <<"e","n","c","r","y","p","t","e","d">>, <<"n","o"," ","d","a","t","a"," ","s","h","a","r","i","n","g">>, <<"g","d","p","r">>, <<"p","r","i","v","a","c","y"," ","f","o","c","u","s","e","d">>, <<"u","s","e","r"," ","c","o","n","t","r","o","l">>,
     <<"o","p","t","-","o","u","t">>, <<"d","e","l","e","t","e"," ","d","a","t","a">>, <<"m","i","n","i","m","a","l"," ","c","o","l","l","e","c","t","i","o","n">> >>

negativeKeywords ==
  << <<"s","e","l","l"," ","d","a","t","a">>, <<"t","h","i","r","d"," ","p","a","r","t","y">>, <<"a","d","v","e","r","t","i","s","e","r","s">>, <<"s","h","a","r","e"," ","d","a","t","a">>, <<"i","n","d","e","f","i","n","i","t","e","l","y">>,
     <<"p","a","r","t","n","e","r","s">>, <<"a","f","f","i","l","i","a","t","e","s">>, <<"m","a","r","k","e","t","i","n","g">> >>

highRiskCompanies == << <<"M","e","t","a">>, <<"G","o","o","g","l","e">>, <<"A","m","a","z","o","n">> >>

\* Number of keywords of the list that the lower-cased policy includes.
KeywordHits(lowerPolicy, words) ==
  Cardinality({k \in 1..Len(words) : Includes(lowerPolicy, words[k])})

IsHighRisk(company) ==
  \E k \in 1..Len(highRiskCompanies) :
    Includes(company, highRiskCompanies[k])

\* A tracker tier table that is off for one or two trackers.
TrackerPointsShifted(n) ==
  IF n = 0 THEN 40
  ELSE IF n <= 2 THEN 25
  ELSE IF n <= 5 THEN 15
  ELSE 0

\* A tracker tier table that gives points back from sixteen trackers on.
TrackerPointsRising(n) ==
  IF n = 0 THEN 40
  ELSE IF n <= 2 THEN 35
  ELSE IF n <= 5 THEN 25
  ELSE IF n <= 10 THEN 15
  ELSE IF n <= 15 THEN 5
  ELSE 10

\* if (trackers.length === 0) score += 40; else if ... (the trackers factor)
TrackerPoints(n) ==
  IF n = 0 THEN 40
  ELSE IF n <= 2 THEN 35
  ELSE IF n <= 5 THEN 25
  ELSE IF n <= 10 THEN 15
  ELSE IF n <= 15 THEN 5
  ELSE 0

SchemePoints(url) == IF StartsWith(url, <<"h","t","t","p","s",":","/","/">>) THEN 10 ELSE 0

KeywordPoints(lowerPolicy) ==
  4 * KeywordHits(lowerPolicy, positiveKeywords)
  - 3 * KeywordHits(lowerPolicy, negativeKeywords)

PolicyPoints(simplifiedPolicy) ==
  IF simplifiedPolicy = Undefined THEN 0
  ELSE KeywordPoints(ToLower(simplifiedPolicy))

\* A summary component whose penalty has no cap.
SummaryPointsUncapped(aiSummary) ==
  IF aiSummary.success
    THEN (IF Len(OrEmpty(aiSummary.summary.keyRisks)) <= 2 THEN 15
          ELSE IF Len(OrEmpty(aiSummary.summary.keyRisks)) <= 4 THEN 10 ELSE 5)
         - 3 * Len(SelectSeq(OrEmpty(aiSummary.summary.whoTheyShareWith), IsHighRisk))
    ELSE 0

SummaryPoints(aiSummary) ==
  IF aiSummary.success
    THEN LET risks == OrEmpty(aiSummary.summary.keyRisks)
             shareWith == OrEmpty(aiSummary.summary.whoTheyShareWith)
             highRiskCount == Len(SelectSeq(shareWith, IsHighRisk))
         IN (IF Len(risks) <= 2 THEN 15 ELSE IF Len(risks) <= 4 THEN 10 ELSE 5)
            - Min(highRiskCount * 3, 15)
    ELSE 0

\* A score returned without the final adjustments.
Unclamped(score) == score

\* if (score < 0) score = 0; if (score > 100) score = 100
Clamp(score) == IF score < 0 THEN 0 ELSE IF score > 100 THEN 100 ELSE score

calculatePrivacyScore(url, simplifiedPolicy, trackers, aiSummary) ==
  Clamp(TrackerPoints(Len(trackers)) + SchemePoints(url)
        + PolicyPoints(simplifiedPolicy) + SummaryPoints(aiSummary))

\* A grade table whose thresholds are exclusive.
getGradeAboveThreshold(score) ==
  IF score > 95 THEN "A+"
  ELSE IF score > 90 THEN "A"
  ELSE IF score > 85 THEN "A-"
  ELSE IF score > 80 THEN "B+"
  ELSE IF score > 75 THEN "B"
  ELSE IF score > 70 THEN "B-"
  ELSE IF score > 65 THEN "C+"
  ELSE IF score > 60 THEN "C"
  ELSE IF score > 55 THEN "C-"
  ELSE IF score > 50 THEN "D+"
  ELSE IF score > 45 THEN "D"
  ELSE IF score > 40 THEN "D-"
  ELSE "F"

getGradeFromScore(score) ==
  IF score >= 95 THEN "A+"
  ELSE IF score >= 90 THEN "A"
  ELSE IF score >= 85 THEN "A-"
  ELSE IF score >= 80 THEN "B+"
  ELSE IF score >= 75 THEN "B"
  ELSE IF score >= 70 THEN "B-"
  ELSE IF score >= 65 THEN "C+"
  ELSE IF score >= 60 THEN "C"
  ELSE IF score >= 55 THEN "C-"
  ELSE IF score >= 50 THEN "D+"
  ELSE IF score >= 45 THEN "D"
  ELSE IF score >= 40 THEN "D-"
  ELSE "F"

getCategory(score) ==
  IF score >= 80 THEN "Excellent"
  ELSE IF score >= 65 THEN "Good"
  ELSE IF score >= 50 THEN "Moderate"
  ELSE IF score >= 35 THEN "Poor"
  ELSE "Very Poor"

successfulCacheDuration == 48 * 60 * 60 * 1000
failedCacheDuration == 30 * 60 * 1000

\* A staleness test that still serves a record at exactly its bound.
isCacheValidInclusive(existingSite, t) ==
  IF existingSite.aiSummary.success
    THEN t - existingSite.lastAnalyzed <= successfulCacheDuration
    ELSE t - existingSite.lastAnalyzed <= failedCacheDuration

\* isCacheValid for a found record at time t
isCacheValid(existingSite, t) ==
  IF existingSite.aiSummary.success
    THEN t - existingSite.lastAnalyzed < successfulCacheDuration
    ELSE t - existingSite.lastAnalyzed < failedCacheDuration

\* What the Site schema keeps of an aiSummary: rawResponse is no path of
\* aiSummarySchema, trackerCount and trackerDetails have defaults.
SchemaCast(site) ==
  [site EXCEPT !.aiSummary.keys =
     (@ \ {"rawResponse"}) \cup {"trackerCount", "trackerDetails"}]

\* A cache-hit response that drops the stored tracker list.
CacheHitSiteNoTrackers(existingSite) ==
  [url |-> existingSite.url, score |-> existingSite.score,
   grade |-> existingSite.grade, category |-> existingSite.category,
   trackers |-> <<>>, trackerCount |-> 0,
   simplifiedPolicy |-> existingSite.simplifiedPolicy,
   aiSummary |-> existingSite.aiSummary,
   lastAnalyzed |-> existingSite.lastAnalyzed]

\* The site part of the response on a cache hit.
CacheHitSite(existingSite) ==
  [url |-> existingSite.url, score |-> existingSite.score,
   grade |-> existingSite.grade, category |-> existingSite.category,
   trackers |-> existingSite.trackers,
   trackerCount |-> Len(existingSite.trackers),
   simplifiedPolicy |-> existingSite.simplifiedPolicy,
   aiSummary |-> existingSite.aiSummary,
   lastAnalyzed |-> existingSite.lastAnalyzed]

\* The site part of the response after a fresh analysis.
FreshSite(site) ==
  [url |-> site.url, score |-> site.score, grade |-> site.grade,
   category |-> site.category, trackers |-> site.trackers,
   trackerCount |-> Len(site.trackers),
   simplifiedPolicy |-> site.simplifiedPolicy, aiSummary |-> site.aiSummary,
   lastAnalyzed |-> site.lastAnalyzed]

\* ------------------------------------------------------------ model inputs
Reqs == 1..MaxReq

\* req.body.url: an absolute URL, and a string new URL() rejects
Urls == {<<"h","t","t","p","s",":","/","/","e","x","a","m","p","l","e",".","c","o","m">>, <<"e","x","a","m","p","l","e",".","c","o","m">>}

Policies == {Undefined}

\* The requests a page may make while its session is open.
PageRequests ==
  {<<"h","t","t","p","s",":","/","/","d","o","u","b","l","e","c","l","i","c","k",".","n","e","t","/","d","d","m","/","a","d">>, <<"h","t","t","p","s",":","/","/","g","o","o","g","l","e","-","a","n","a","l","y","t","i","c","s",".","c","o","m","/","g","/","d","a","t","a">>,
   <<"h","t","t","p","s",":","/","/","e","x","a","m","p","l","e",".","c","o","m","/","A","n","a","l","y","t","i","c","s",".","j","s">>, <<"h","t","t","p","s",":","/","/","c","d","n",".","e","x","a","m","p","l","e",".","n","e","t","/","a","p","p",".","j","s">>}

\* A parsed response of the text-generation service.
AiParsed ==
  [whatTheyCollect |-> Arr(<< <<"Page views">>, <<"Advertising identifiers">> >>),
   whoTheyShareWith |-> Arr(<<<<"G","o","o","g","l","e"," ","L","L","C">>, <<"M","e","t","a"," ","P","l","a","t","f","o","r","m","s">>>>),
   howLongTheyKeep |-> Txt("Up to 26 months"),
   keyRisks |-> Arr(<< <<"Cross-site profiling">>, <<"Ad targeting">>,
                       <<"Data sharing">> >>),
   trackerBreakdown |-> Arr(<< <<"doubleclick.net: advertising">> >>)]

Outcomes ==
  {[kind |-> "json", parsed |-> AiParsed],
   [kind |-> "text", parsed |-> EmptySummary],
   [kind |-> "raise", parsed |-> EmptySummary]}

\* Clock advances that put a record on both sides of each staleness bound.
Jumps ==
  {failedCacheDuration - 1, failedCacheDuration,
   successfulCacheDuration - 1, successfulCacheDuration}

\* Clock advances that put a memo entry on both sides of CACHE_EXPIRY.
MemoJumps == {CACHE_EXPIRY - 1, CACHE_EXPIRY}

\* The tracker lists generateAIPrivacySummary is called with directly.
TrackerLists ==
  {<<>>, <<<<"d","o","u","b","l","e","c","l","i","c","k",".","n","e","t">>>>, <<<<"g","o","o","g","l","e","-","a","n","a","l","y","t","i","c","s",".","c","o","m">>>>,
   <<<<"d","o","u","b","l","e","c","l","i","c","k",".","n","e","t">>, <<"g","o","o","g","l","e","-","a","n","a","l","y","t","i","c","s",".","c","o","m">>>>,
   <<<<"g","o","o","g","l","e","-","a","n","a","l","y","t","i","c","s",".","c","o","m">>, <<"d","o","u","b","l","e","c","l","i","c","k",".","n","e","t">>>>}

SumUrls == {<<"h","t","t","p","s",":","/","/","e","x","a","m","p","l","e",".","c","o","m">>, <<"h","t","t","p",":","/","/","e","x","a","m","p","l","e",".","c","o","m">>, <<"e","x","a","m","p","l","e",".","c","o","m">>}

\* The longest urls array detectTrackersForMultipleUrls is called with.
MaxBatch == 3

\* detectTrackers' options: analyzeSite passes none, so the defaults apply.
DefaultOptions == [waitForInteractions |-> TRUE, includeFirstParty |-> FALSE]

DetectOptions == [waitForInteractions : BOOLEAN, includeFirstParty : BOOLEAN]

\* Pages whose own hostname is on the tracker list, matches a host pattern,
\* or neither.
CrawlUrls ==
  {<<"h","t","t","p","s",":","/","/","d","o","u","b","l","e","c","l","i","c","k",".","n","e","t">>,
   <<"h","t","t","p","s",":","/","/","p","i","x","e","l",".","e","x","a","m","p","l","e",".","c","o","m">>,
   <<"h","t","t","p","s",":","/","/","e","x","a","m","p","l","e",".","c","o","m","/">>}

\* Requests of those pages to their own host: with and without a URL
\* pattern in the path.
CrawlRequests ==
  {<<"h","t","t","p","s",":","/","/","d","o","u","b","l","e","c","l","i","c","k",".","n","e","t","/","d","d","m","/","a","d">>,
   <<"h","t","t","p","s",":","/","/","p","i","x","e","l",".","e","x","a","m","p","l","e",".","c","o","m","/","a","p","p",".","j","s">>,
   <<"h","t","t","p","s",":","/","/","e","x","a","m","p","l","e",".","c","o","m","/","a","p","p",".","j","s">>,
   <<"h","t","t","p","s",":","/","/","E","X","A","M","P","L","E",".","c","o","m","/","A","n","a","l","y","t","i","c","s",".","j","s">>}

\* extractDomain(request.url()) for every request of the model.
RequestHost == [q \in PageRequests \cup CrawlRequests |-> extractDomain(q)]

\* mainDomain for every page of the model new URL() accepts.
PageHost == [u \in {v \in Urls \cup CrawlUrls : IsValidUrl(v)} |-> Hostname(u)]

\* The three tracker signals of isTracker for every request of the model: a
\* list entry in the hostname, a host pattern, a URL pattern.
TrackerSignal ==
  [q \in PageRequests \cup CrawlRequests |->
     \/ IsKnownTracker(extractDomain(q))
     \/ MatchesTrackerPattern(extractDomain(q))
     \/ MatchesTrackerUrlPattern(q)]

\* What the request hook adds for a page request: isTracker for every page
\* request, page URL and includeFirstParty.
TrackerOf ==
  [q \in PageRequests \cup CrawlRequests,
   u \in {v \in Urls \cup CrawlUrls : IsValidUrl(v)}, f \in BOOLEAN |->
     LET requestDomain == extractDomain(q)
     IN IF requestDomain # NullString /\ isTracker(q, requestDomain, Hostname(u), f)
          THEN {requestDomain} ELSE {}]

\* siteData with its score: the grade and the category come from the score.
Graded(url, simplifiedPolicy, trackers, aiSummary, t, score) ==
  [url |-> url, simplifiedPolicy |-> simplifiedPolicy, score |-> score,
   grade |-> getGradeFromScore(score), category |-> getCategory(score),
   trackers |-> trackers, aiSummary |-> aiSummary, lastAnalyzed |-> t]

\* The object analyzeSite assembles from a fresh analysis at time t.
SiteData(url, simplifiedPolicy, trackers, aiSummary, t) ==
  Graded(url, simplifiedPolicy, trackers, aiSummary, t,
         calculatePrivacyScore(url, simplifiedPolicy, trackers, aiSummary))

\* ------------------------------------------------------------------ state
VARIABLES
  now,          \* Date.now(), milliseconds
  ticks,        \* number of clock advances made
  dbConnected,  \* mongoose.connection.readyState === 1
  credential,   \* process.env.GEMINI_API_KEY is set
  store,        \* the Site collection: url -> document
  aiCache,      \* geminiService.js aiCache: cache key -> {data, timestamp}
  rq,           \* the analyzeSite requests
  det,          \* a direct detectTrackers call, await by await
  call,         \* a direct generateAIPrivacySummary call
  batch,        \* a detectTrackersForMultipleUrls call, await by await
  app,          \* one application of a pure function: its input and result
  ext           \* the browser extension: storage, worker, rules, popup

vars ==
  <<now, ticks, dbConnected, credential, store, aiCache, rq, det, call, batch,
    app, ext>>

EmptyMap == [k \in {} |-> None]

IdleRequest ==
  [pc |-> "idle", url |-> NullString, simplifiedPolicy |-> Undefined,
   forceRefresh |-> FALSE,
   trackerResult |-> None, aiPath |-> "none", aiSummary |-> None,
   siteData |-> None, calls |-> {}, resp |-> None]

IdleDetect ==
  [pc |-> "idle", url |-> NullString, options |-> DefaultOptions, made |-> 0,
   session |-> "none", launches |-> 0, detected |-> {}, navError |-> Null,
   atTimeout |-> {}, simFailed |-> FALSE, result |-> None,
   sim |-> [steps |-> {}, failed |-> {}, sel |-> 1]]

IdleBatch ==
  [pc |-> "idle", urls |-> <<>>, options |-> DefaultOptions, i |-> 1,
   results |-> <<>>]

IdleCall ==
  [pc |-> "idle", given |-> <<>>, trackers |-> <<>>, url |-> NullString,
   made |-> 0, path |-> "none", result |-> None]

\* No pure function is being applied.
IdleApp == [f |-> "none", in |-> None, out |-> None, done |-> FALSE]

\* The input i handed to the function named f.
Applying(f, i) == [f |-> f, in |-> i, out |-> None, done |-> FALSE]

\* ------------------------------------------------- the browser extension
\* The largest number of updateBlockingRules runs in flight at once.
MaxRuns == 2

\* The pages of the browser's tabs.
TabUrls ==
  {<<"h","t","t","p","s",":","/","/","s","h","o","p",".","e","x","a","m","p","l","e",".","c","o","m","/","c","a","r","t">>,
   <<"h","t","t","p","s",":","/","/","n","e","w","s",".","e","x","a","m","p","l","e",".","o","r","g","/">>}

\* PrivacyManager.getDomainFromUrl(url)
getDomainFromUrl(url) ==
  IF ~StartsWith(url, <<"h","t","t","p">>) \/ ~IsValidUrl(url)
    THEN <<"u","n","k","n","o","w","n">>
    ELSE Hostname(url)

TabDomain == [u \in TabUrls |-> getDomainFromUrl(u)]

Domains == {TabDomain[u] : u \in TabUrls}

\* DataGuardianBackground.getTrackerDomains()
getTrackerDomains ==
  <<[category |-> "Advertising",
     domains |-> <<<<"*",":","/","/","*",".","d","o","u","b","l","e","c","l","i","c","k",".","n","e","t","/","*">>,
                   <<"*",":","/","/","*",".","g","o","o","g","l","e","s","y","n","d","i","c","a","t","i","o","n",".","c","o","m","/","*">>,
                   <<"*",":","/","/","*",".","g","o","o","g","l","e","a","d","s","e","r","v","i","c","e","s",".","c","o","m","/","*">>,
                   <<"*",":","/","/","*",".","a","m","a","z","o","n","-","a","d","s","y","s","t","e","m",".","c","o","m","/","*">>,
                   <<"*",":","/","/","*",".","c","r","i","t","e","o",".","c","o","m","/","*">>,
                   <<"*",":","/","/","*",".","a","d","n","x","s",".","c","o","m","/","*">>>>],
    [category |-> "Analytics",
     domains |-> <<<<"*",":","/","/","*",".","g","o","o","g","l","e","-","a","n","a","l","y","t","i","c","s",".","c","o","m","/","*">>,
                   <<"*",":","/","/","*",".","m","i","x","p","a","n","e","l",".","c","o","m","/","*">>,
                   <<"*",":","/","/","*",".","s","e","g","m","e","n","t",".","c","o","m","/","*">>,
                   <<"*",":","/","/","*",".","a","m","p","l","i","t","u","d","e",".","c","o","m","/","*">>,
                   <<"*",":","/","/","*",".","h","o","t","j","a","r",".","c","o","m","/","*">>>>],
    [category |-> "Social",
     domains |-> <<<<"*",":","/","/","*",".","f","a","c","e","b","o","o","k",".","n","e","t","/","*">>,
                   <<"*",":","/","/","*",".","c","o","n","n","e","c","t",".","f","a","c","e","b","o","o","k",".","n","e","t","/","*">>,
                   <<"*",":","/","/","*",".","a","d","s","-","t","w","i","t","t","e","r",".","c","o","m","/","*">>,
                   <<"*",":","/","/","*",".","l","i","n","k","e","d","i","n",".","c","o","m","/","a","n","a","l","y","t","i","c","s","/","*">>>>],
    [category |-> "Tag Manager",
     domains |-> <<<<"*",":","/","/","*",".","g","o","o","g","l","e","t","a","g","m","a","n","a","g","e","r",".","c","o","m","/","*">>>>],
    [category |-> "CDN/Utility",
     domains |-> <<<<"*",":","/","/","*",".","g","s","t","a","t","i","c",".","c","o","m","/","*">>,
                   <<"*",":","/","/","*",".","g","o","o","g","l","e","a","p","i","s",".","c","o","m","/","*">>>>],
    [category |-> "Unknown",
     domains |-> <<>>]>>

\* A run of updateBlockingRules that is not in flight.
IdleRun == [pc |-> "idle", ids |-> {}, newRules |-> {}]

\* The extension as installed: nothing in chrome.storage.local, the worker
\* in its constructor's mode, no dynamic rule, the popup not yet used.
IdleExt ==
  [storage |-> [privacyMode |-> "unset",
                siteMode |-> [d \in Domains |-> "unset"]],
   worker |-> [privacyMode |-> "research"],
   active |-> <<"h","t","t","p","s",":","/","/","s","h","o","p",".","e","x","a","m","p","l","e",".","c","o","m","/","c","a","r","t">>,
   rules |-> {},
   runs |-> [i \in 1..MaxRuns |-> IdleRun],
   popup |-> [pc |-> "idle", mode |-> "none"]]

\* The modules as loaded: nothing stored, no request in flight.
InitProgram ==
  /\ now = 0
  /\ ticks = 0
  /\ dbConnected \in BOOLEAN
  /\ credential \in BOOLEAN
  /\ store = EmptyMap
  /\ aiCache = EmptyMap
  /\ rq = [r \in Reqs |-> IdleRequest]
  /\ det = IdleDetect
  /\ call = IdleCall
  /\ batch = IdleBatch
  /\ ext = IdleExt

Init == InitProgram /\ app = IdleApp

\* The function named f returns out.
Applied(f, out) ==
  /\ app.f = f
  /\ ~app.done
  /\ app' = [app EXCEPT !.out = out, !.done = TRUE]
  /\ UNCHANGED <<now, ticks, dbConnected, credential, store, aiCache, rq, det, call, batch, ext>>

\* ------------------------------------------------- calculatePrivacyScore
\* The largest number of trackers a scored site has.
MaxTrackers == 16

\* The largest number of entries in whoTheyShareWith.
MaxShares == 7

\* Policy texts: none, one with every positive keyword, one with every
\* negative keyword.
ScorePolicies ==
  {Undefined,
   <<"E","n","c","r","y","p","t","e","d"," ","a","n","d"," ","G","D","P","R"," ","c","o","m","p","l","i","a","n","t","."," ","N","o"," ","d","a","t","a"," ","s","h","a","r","i","n","g","."," ","P","r","i","v","a","c","y"," ","f","o","c","u","s","e","d","."," ","U","s","e","r"," ","c","o","n","t","r","o","l"," ","a","n","d"," ","o","p","t","-","o","u","t","."," ","D","e","l","e","t","e"," ","d","a","t","a","."," ","M","i","n","i","m","a","l"," ","c","o","l","l","e","c","t","i","o","n",".">>,
   <<"W","e"," ","s","e","l","l"," ","d","a","t","a"," ","a","n","d"," ","s","h","a","r","e"," ","d","a","t","a"," ","w","i","t","h"," ","a","d","v","e","r","t","i","s","e","r","s"," ","a","n","d"," ","p","a","r","t","n","e","r","s"," ","a","n","d"," ","a","f","f","i","l","i","a","t","e","s"," ","a","n","d"," ","a","n","y"," ","t","h","i","r","d"," ","p","a","r","t","y"," ","f","o","r"," ","m","a","r","k","e","t","i","n","g"," ","i","n","d","e","f","i","n","i","t","e","l","y",".">>}

\* The whoTheyShareWith entries, in the order the summaries list them: high-
\* risk companies, one of them under several names, and one that is not.
ShareEntries ==
  <<<<"G","o","o","g","l","e"," ","L","L","C">>,
    <<"G","o","o","g","l","e"," ","A","d","s">>,
    <<"A","c","m","e"," ","D","a","t","a">>,
    <<"M","e","t","a"," ","P","l","a","t","f","o","r","m","s">>,
    <<"A","m","a","z","o","n"," ","A","d","s">>,
    <<"G","o","o","g","l","e"," ","C","l","o","u","d">>>>

\* A summary with k key risks and the first h entries of whoTheyShareWith.
ScoredSummary(k, h) ==
  [success |-> TRUE,
   summary |-> [EmptySummary EXCEPT
                  !.keyRisks = Arr([i \in 1..k |-> <<"Data sharing">>]),
                  !.whoTheyShareWith =
                     Arr([i \in 1..h |->
                            ShareEntries[((i - 1) % Len(ShareEntries)) + 1]])]]

ScoreSummaries ==
  {[success |-> FALSE, summary |-> EmptySummary]}
    \cup {ScoredSummary(k, h) : k \in {0, 2, 3, 4, 5}, h \in 0..MaxShares}

ScoreInputs ==
  [url : {<<"h","t","t","p","s",":","/","/","e","x","a","m","p","l","e",".","c","o","m">>, <<"h","t","t","p",":","/","/","e","x","a","m","p","l","e",".","c","o","m">>},
   simplifiedPolicy : ScorePolicies,
   trackers : {[i \in 1..n |-> <<"t",".","e","x","a","m","p","l","e",".","n","e","t">>] : n \in 0..MaxTrackers},
   aiSummary : ScoreSummaries]

InitScore ==
  /\ InitProgram
  /\ app \in {Applying("calculatePrivacyScore", i) : i \in ScoreInputs}

\* calculatePrivacyScore({url, simplifiedPolicy, trackers, aiSummary})
ApplyScore ==
  Applied("calculatePrivacyScore",
          calculatePrivacyScore(app.in.url, app.in.simplifiedPolicy,
                                app.in.trackers, app.in.aiSummary))

SpecScore == InitScore /\ [][ApplyScore]_vars

\* ---------------------------------------------------------- classifyDomain
\* Lower-cased hostnames: of one rule, of two rules, of the generic keywords
\* only, of a rule and a generic keyword, of nothing, and the empty string.
ClassifyHosts ==
  {<<"d","o","u","b","l","e","c","l","i","c","k",".","n","e","t">>,
   <<"a","d",".","d","o","u","b","l","e","c","l","i","c","k",".","n","e","t">>,
   <<"g","t","m",".","d","o","u","b","l","e","c","l","i","c","k",".","n","e","t">>,
   <<"w","w","w",".","g","o","o","g","l","e","t","a","g","m","a","n","a","g","e","r",".","c","o","m">>,
   <<"g","t","m",".","g","o","o","g","l","e","-","a","n","a","l","y","t","i","c","s",".","c","o","m">>,
   <<"w","w","w",".","g","o","o","g","l","e","-","a","n","a","l","y","t","i","c","s",".","c","o","m">>,
   <<"a","n","a","l","y","t","i","c","s",".","g","o","o","g","l","e",".","c","o","m">>,
   <<"w","w","w",".","g","o","o","g","l","e",".","c","o","m">>,
   <<"f","o","n","t","s",".","g","s","t","a","t","i","c",".","c","o","m">>,
   <<"c","o","n","n","e","c","t",".","f","a","c","e","b","o","o","k",".","n","e","t">>,
   <<"w","w","w",".","i","n","s","t","a","g","r","a","m",".","c","o","m">>,
   <<"p","x",".","a","d","s",".","l","i","n","k","e","d","i","n",".","c","o","m">>,
   <<"a","n","a","l","y","t","i","c","s",".","t","w","i","t","t","e","r",".","c","o","m">>,
   <<"i","b",".","a","d","n","x","s",".","c","o","m">>,
   <<"c","d","n",".","m","i","x","p","a","n","e","l",".","c","o","m">>,
   <<"c","d","n",".","s","e","g","m","e","n","t",".","c","o","m">>,
   <<"s","t","a","t","i","c",".","h","o","t","j","a","r",".","c","o","m">>,
   <<"c","d","n",".","d","o","u","b","l","e","v","e","r","i","f","y",".","c","o","m">>,
   <<"s","b",".","s","c","o","r","e","c","a","r","d","r","e","s","e","a","r","c","h",".","c","o","m">>,
   <<"c","o","l","l","e","c","t","o","r",".","g","i","t","h","u","b",".","c","o","m">>,
   <<"s","t","a","t","i","c",".","c","l","o","u","d","f","l","a","r","e","i","n","s","i","g","h","t","s",".","c","o","m">>,
   <<"d","u","b","c","d","n",".","c","o","m">>,
   <<"f","a","c","e","b","o","o","k",".","d","u","b","c","d","n",".","c","o","m">>,
   <<"p","i","x","e","l",".","e","x","a","m","p","l","e",".","c","o","m">>,
   <<"t","r","a","c","k","i","n","g",".","e","x","a","m","p","l","e",".","o","r","g">>,
   <<"m","e","t","r","i","c","s",".","e","x","a","m","p","l","e",".","n","e","t">>,
   <<"t","e","l","e","m","e","t","r","y",".","e","x","a","m","p","l","e",".","c","o","m">>,
   <<"b","e","a","c","o","n",".","e","x","a","m","p","l","e",".","c","o","m">>,
   <<"s","i","t","e","-","a","n","a","l","y","t","i","c","s",".","i","o">>,
   <<"c","o","l","l","e","c","t",".","e","x","a","m","p","l","e",".","c","o","m">>,
   <<"c","d","n",".","e","x","a","m","p","l","e",".","n","e","t">>,
   <<"e","x","a","m","p","l","e",".","c","o","m">>,
   <<"l","o","c","a","l","h","o","s","t">>,
   <<>>}

InitClassify ==
  /\ InitProgram
  /\ app \in {Applying("classifyDomain", lower) : lower \in ClassifyHosts}

\* classifyDomain(lower)
ApplyClassify == Applied("classifyDomain", classifyDomain(app.in))

SpecClassify == InitClassify /\ [][ApplyClassify]_vars

\* ----------------------------------- getNetworkGraph: classifyTrackerDomain
\* String.prototype.endsWith
EndsWith(hay, suffix) ==
  /\ Len(suffix) <= Len(hay)
  /\ SubSeq(hay, Len(hay) - Len(suffix) + 1, Len(hay)) = suffix

\* hostname.split(".").filter(Boolean): the non-empty labels.
RECURSIVE Labels(_, _, _)
Labels(cs, i, label) ==
  IF i > Len(cs) THEN IF label = <<>> THEN <<>> ELSE <<label>>
  ELSE IF cs[i] = "." THEN (IF label = <<>> THEN <<>> ELSE <<label>>)
                             \o Labels(cs, i + 1, <<>>)
  ELSE Labels(cs, i + 1, Append(label, cs[i]))

\* getRootDomain(hostname): the last two labels, lower-cased.
getRootDomain(hostname) ==
  LET parts == Labels(ToLower(hostname), 1, <<>>)
  IN IF Len(parts) <= 2 THEN Join(parts, <<".">>)
     ELSE Join(SubSeq(parts, Len(parts) - 1, Len(parts)), <<".">>)

\* The vendor table of classifyTrackerDomain: a rule matches when one of its
\* alternatives occurs in the lower-cased domain.
checks ==
  <<
     [alts |-> << <<"d","o","u","b","l","e","c","l","i","c","k">>,
                  <<"g","o","o","g","l","e","s","y","n","d","i","c","a","t","i","o","n">>,
                  <<"g","o","o","g","l","e","a","d","s","e","r","v","i","c","e","s">>,
                  <<"a","d","s",".","g","o","o","g","l","e">>,
                  <<"a","d","s","e","r","v","i","c","e",".","g","o","o","g","l","e">> >>,
      name |-> <<"G","o","o","g","l","e"," ","A","d","s">>,
      category |-> "Advertising", company |-> "Google"],
     [alts |-> << <<"g","o","o","g","l","e","t","a","g","m","a","n","a","g","e","r">>,
                  <<"g","t","m">> >>,
      name |-> <<"G","o","o","g","l","e"," ","T","a","g"," ","M","a","n","a","g","e","r">>,
      category |-> "Tag Manager", company |-> "Google"],
     [alts |-> << <<"g","o","o","g","l","e","-","a","n","a","l","y","t","i","c","s">>,
                  <<"a","n","a","l","y","t","i","c","s",".","g","o","o","g","l","e">> >>,
      name |-> <<"G","o","o","g","l","e"," ","A","n","a","l","y","t","i","c","s">>,
      category |-> "Analytics", company |-> "Google"],
     [alts |-> << <<"g","s","t","a","t","i","c">>,
                  <<"g","o","o","g","l","e","a","p","i","s">> >>,
      name |-> <<"G","o","o","g","l","e"," ","S","t","a","t","i","c","/","S","e","r","v","i","c","e","s">>,
      category |-> "CDN/Utility", company |-> "Google"],
     [alts |-> << <<".","g","o","o","g","l","e",".">> >>,
      name |-> <<"G","o","o","g","l","e"," ","S","e","r","v","i","c","e","s">>,
      category |-> "CDN/Utility", company |-> "Google"],
     [alts |-> << <<"f","a","c","e","b","o","o","k">>,
                  <<"f","b","c","d","n">>,
                  <<"f","b","e","v","e","n","t","s">>,
                  <<"c","o","n","n","e","c","t",".","f","a","c","e","b","o","o","k",".","n","e","t">> >>,
      name |-> <<"M","e","t","a"," ","P","i","x","e","l">>,
      category |-> "Advertising", company |-> "Meta"],
     [alts |-> << <<"i","n","s","t","a","g","r","a","m",".","c","o","m">> >>,
      name |-> <<"I","n","s","t","a","g","r","a","m">>,
      category |-> "Social", company |-> "Meta"],
     [alts |-> << <<"l","i","n","k","e","d","i","n">>,
                  <<"l","i","c","d","n">>,
                  <<"b","a","t",".","b","i","n","g",".","c","o","m">>,
                  <<"b","i","n","g","a","d","s">> >>,
      name |-> <<"M","i","c","r","o","s","o","f","t"," ","A","d","s","/","L","i","n","k","e","d","I","n">>,
      category |-> "Advertising", company |-> "Microsoft"],
     [alts |-> << <<"t","w","i","t","t","e","r">>,
                  <<"t","i","k","t","o","k">>,
                  <<"s","n","a","p","c","h","a","t">>,
                  <<"p","i","n","t","e","r","e","s","t">> >>,
      name |-> <<"S","o","c","i","a","l"," ","N","e","t","w","o","r","k">>,
      category |-> "Social", company |-> "Various"],
     [alts |-> << <<"a","d","n","x","s">>,
                  <<"a","p","p","n","e","x","u","s">>,
                  <<"r","u","b","i","c","o","n","p","r","o","j","e","c","t">>,
                  <<"p","u","b","m","a","t","i","c">>,
                  <<"c","r","i","t","e","o">>,
                  <<"t","a","b","o","o","l","a">>,
                  <<"o","u","t","b","r","a","i","n">>,
                  <<"o","p","e","n","x">>,
                  <<"a","d","r","o","l","l">> >>,
      name |-> <<"A","d"," ","N","e","t","w","o","r","k">>,
      category |-> "Advertising", company |-> "Various"],
     [alts |-> << <<"m","i","x","p","a","n","e","l">>,
                  <<"s","e","g","m","e","n","t">>,
                  <<"a","m","p","l","i","t","u","d","e">>,
                  <<"h","o","t","j","a","r">>,
                  <<"f","u","l","l","s","t","o","r","y">>,
                  <<"l","o","g","r","o","c","k","e","t">>,
                  <<"o","p","t","i","m","i","z","e","l","y">>,
                  <<"m","o","u","s","e","f","l","o","w">>,
                  <<"c","h","a","r","t","b","e","a","t">>,
                  <<"c","l","i","c","k","t","a","l","e">>,
                  <<"m","a","t","h","t","a","g">>,
                  <<"d","o","u","b","l","e","v","e","r","i","f","y">> >>,
      name |-> <<"A","n","a","l","y","t","i","c","s","/","O","p","t","i","m","i","z","a","t","i","o","n">>,
      category |-> "Analytics", company |-> "Various"],
     [alts |-> << <<"s","c","o","r","e","c","a","r","d","r","e","s","e","a","r","c","h">>,
                  <<"q","u","a","n","t","s","e","r","v","e">>,
                  <<"c","o","m","s","c","o","r","e">>,
                  <<"d","e","m","d","e","x">>,
                  <<"a","d","s","r","v","r">>,
                  <<"e","y","e","o","t","a">>,
                  <<"b","l","u","e","k","a","i">> >>,
      name |-> <<"D","a","t","a"," ","B","r","o","k","e","r">>,
      category |-> "Advertising", company |-> "Various"],
     [alts |-> << <<"a","m","a","z","o","n","-","a","d","s","y","s","t","e","m",".","c","o","m">> >>,
      name |-> <<"A","m","a","z","o","n"," ","A","d","v","e","r","t","i","s","i","n","g">>,
      category |-> "Advertising", company |-> "Amazon"],
     [alts |-> << <<"b","o","u","n","c","e","x",".","n","e","t">>,
                  <<"w","u","n","d","e","r","k","i","n","d",".","c","o">> >>,
      name |-> <<"W","u","n","d","e","r","k","i","n","d"," ","(","B","o","u","n","c","e","X",")">>,
      category |-> "Advertising", company |-> "Wunderkind"],
     [alts |-> << <<"o","n","e","t","a","g",".","c","o","m">>,
                  <<"s","-","o","n","e","t","a","g",".","c","o","m">> >>,
      name |-> <<"O","n","e","T","a","g">>,
      category |-> "Advertising", company |-> "OneTag"],
     [alts |-> << <<"t","u","r","n","e","r",".","c","o","m">> >>,
      name |-> <<"T","u","r","n","e","r"," ","C","D","N">>,
      category |-> "CDN/Utility", company |-> "Warner Bros. Discovery (Turner)"],
     [alts |-> << <<"c","o","l","l","e","c","t","o","r",".","g","i","t","h","u","b",".","c","o","m">> >>,
      name |-> <<"G","i","t","H","u","b"," ","T","e","l","e","m","e","t","r","y">>,
      category |-> "Analytics", company |-> "GitHub"],
     [alts |-> << <<"c","l","o","u","d","f","l","a","r","e","i","n","s","i","g","h","t","s",".","c","o","m">> >>,
      name |-> <<"C","l","o","u","d","f","l","a","r","e"," ","W","e","b"," ","A","n","a","l","y","t","i","c","s">>,
      category |-> "Analytics", company |-> "Cloudflare"],
     [alts |-> << <<"d","u","b","c","d","n",".","c","o","m">> >>,
      name |-> <<"D","u","b"," ","C","D","N">>,
      category |-> "CDN/Utility", company |-> "Dub"]
  >>

\* Index of the first check from i on that matches, 0 if none.
RECURSIVE FirstCheck(_, _)
FirstCheck(lower, i) ==
  IF i > Len(checks) THEN 0
  ELSE IF RuleMatches(checks[i], lower) THEN i
  ELSE FirstCheck(lower, i + 1)

\* classifyTrackerDomain(domain), siteRoot being the root of the site's host
classifyTrackerDomain(domain, siteRoot) ==
  LET lower == ToLower(domain)
      i == FirstCheck(lower, 1)
  IN IF EndsWith(lower, siteRoot)
       THEN [name |-> domain, category |-> "First-Party/Analytics",
             company |-> "First-Party"]
     ELSE IF i > 0
       THEN [name |-> checks[i].name, category |-> checks[i].category,
             company |-> checks[i].company]
     ELSE IF \E k \in 1..Len(GenericKeywords) :
               Includes(lower, GenericKeywords[k])
       THEN [name |-> <<"T","r","a","c","k","e","r">>, category |-> "Analytics", company |-> "Unknown"]
     ELSE [name |-> domain, category |-> "Unknown", company |-> "Unknown"]

\* The sites whose graph is asked for.
GraphSites ==
  {<<"h","t","t","p","s",":","/","/","e","x","a","m","p","l","e",".","c","o","m">>,
   <<"h","t","t","p","s",":","/","/","w","w","w",".","e","x","a","m","p","l","e",".","c","o","m","/">>,
   <<"h","t","t","p","s",":","/","/","w","w","w",".","g","o","o","g","l","e",".","c","o","m","/","s","e","a","r","c","h">>}

\* Tracker hostnames: subdomains of a site, the site's own host, hosts of
\* another registrable domain with and without the site's root as the end
\* of their name, vendors' hosts.
GraphTrackers ==
  {<<"c","d","n",".","e","x","a","m","p","l","e",".","c","o","m">>,
   <<"e","x","a","m","p","l","e",".","c","o","m">>,
   <<"s","t","a","t","s",".","e","x","a","m","p","l","e",".","c","o","m">>,
   <<"n","o","t","e","x","a","m","p","l","e",".","c","o","m">>,
   <<"a","d","s",".","n","o","t","e","x","a","m","p","l","e",".","c","o","m">>,
   <<"e","x","a","m","p","l","e",".","c","o","m",".","e","v","i","l",".","n","e","t">>,
   <<"d","o","u","b","l","e","c","l","i","c","k",".","n","e","t">>,
   <<"a","n","a","l","y","t","i","c","s",".","g","o","o","g","l","e",".","c","o","m">>,
   <<"w","w","w",".","g","o","o","g","l","e","-","a","n","a","l","y","t","i","c","s",".","c","o","m">>,
   <<"p","i","x","e","l",".","t","r","a","c","k","e","r",".","o","r","g">>,
   <<"c","d","n",".","j","s","d","e","l","i","v","r",".","n","e","t">>,
   <<"m","y","g","o","o","g","l","e",".","c","o","m">>}

InitGraph ==
  /\ InitProgram
  /\ app \in {Applying("classifyTrackerDomain", [site |-> s, domain |-> d]) :
                s \in GraphSites, d \in GraphTrackers}

\* classifyTrackerDomain(tracker) in getNetworkGraph for site.url
ApplyClassifyTracker ==
  Applied("classifyTrackerDomain",
          classifyTrackerDomain(app.in.domain, getRootDomain(Hostname(app.in.site))))

SpecGraph == InitGraph /\ [][ApplyClassifyTracker]_vars

\* ---------------------------------- geminiService.js: sentenceAwareTruncate
\* The longest text truncated and the largest word budget.
MaxText == 6
MaxWords == 3

\* The characters of the truncated texts: a letter, a sentence end, a space.
TextChars == {"a", ".", " "}

\* [.!?]
SentenceEnds == {".", "!", "?"}

\* String.prototype.trim
RECURSIVE TrimStart(_)
TrimStart(cs) ==
  IF cs # <<>> /\ Head(cs) = " " THEN TrimStart(Tail(cs)) ELSE cs

RECURSIVE TrimEnd(_)
TrimEnd(cs) ==
  IF cs # <<>> /\ cs[Len(cs)] = " "
    THEN TrimEnd(SubSeq(cs, 1, Len(cs) - 1)) ELSE cs

Trim(cs) == TrimEnd(TrimStart(cs))

\* Index of the first character at or after i that is not a space.
RECURSIVE SkipSpaces(_, _)
SkipSpaces(cs, i) ==
  IF i <= Len(cs) /\ cs[i] = " " THEN SkipSpaces(cs, i + 1) ELSE i

\* clean.split(/(?<=[.!?])\s+/): cut at every run of spaces that follows a
\* sentence end; the run is dropped.
RECURSIVE Sentences(_, _, _)
Sentences(cs, i, cur) ==
  IF i > Len(cs) THEN <<cur>>
  ELSE IF cs[i] = " " /\ i > 1 /\ cs[i - 1] \in SentenceEnds
    THEN <<cur>> \o Sentences(cs, SkipSpaces(cs, i), <<>>)
  ELSE Sentences(cs, i + 1, Append(cur, cs[i]))

\* split(/\s+/): cut at every run of spaces; a run at either end leaves an
\* empty string.
RECURSIVE SplitSpaces(_, _, _)
SplitSpaces(cs, i, cur) ==
  IF i > Len(cs) THEN <<cur>>
  ELSE IF cs[i] = " "
    THEN <<cur>> \o SplitSpaces(cs, SkipSpaces(cs, i), <<>>)
  ELSE SplitSpaces(cs, i + 1, Append(cur, cs[i]))

NonEmpty(word) == word # <<>>

\* s.trim().split(/\s+/).filter(Boolean)
WordsOf(s) == SelectSeq(SplitSpaces(Trim(s), 1, <<>>), NonEmpty)

\* The for loop over sentences from index i on: out and count so far.
RECURSIVE Collect(_, _, _, _, _)
Collect(sentences, i, out, count, targetWords) ==
  IF i > Len(sentences) THEN out
  ELSE IF Len(WordsOf(sentences[i])) = 0
    THEN Collect(sentences, i + 1, out, count, targetWords)
  ELSE IF count + Len(WordsOf(sentences[i])) >= targetWords
    THEN Append(out, Trim(sentences[i]))
  ELSE Collect(sentences, i + 1, Append(out, Trim(sentences[i])),
               count + Len(WordsOf(sentences[i])), targetWords)

\* A loop that leaves out the last sentence it took when it took several.
CollectedButLast(sentences, targetWords) ==
  IF Len(Collect(sentences, 1, <<>>, 0, targetWords)) > 1
    THEN SubSeq(Collect(sentences, 1, <<>>, 0, targetWords), 1,
                Len(Collect(sentences, 1, <<>>, 0, targetWords)) - 1)
    ELSE Collect(sentences, 1, <<>>, 0, targetWords)

\* out after the loop
Collected(sentences, targetWords) == Collect(sentences, 1, <<>>, 0, targetWords)

\* words.length <= targetWords ? clean
\*                              : words.slice(0, targetWords).join(' ') + ellipsis
WordCut(clean, words, targetWords) ==
  IF Len(words) <= targetWords THEN clean
  ELSE Join(SubSeq(words, 1, targetWords), <<" ">>) \o <<"...">>

\* The rest of sentenceAwareTruncate for a clean text that is not empty.
TruncateClean(clean, out, targetWords) ==
  IF Len(out) > 0 THEN Join(out, <<" ">>)
  ELSE WordCut(clean, SplitSpaces(clean, 1, <<>>), targetWords)

\* sentenceAwareTruncate(text, targetWords), text a string
sentenceAwareTruncate(text, targetWords) ==
  IF text = <<>> THEN text
  ELSE IF Trim(text) = <<>> THEN Trim(text)
  ELSE TruncateClean(Trim(text),
                     Collected(Sentences(Trim(text), 1, <<>>), targetWords),
                     targetWords)

\* Every text of at most MaxText characters.
Texts == UNION {[1..n -> TextChars] : n \in 0..MaxText}

InitTruncate ==
  /\ InitProgram
  /\ app \in {Applying("sentenceAwareTruncate", [text |-> t, targetWords |-> n]) :
                t \in Texts, n \in 0..MaxWords}

\* sentenceAwareTruncate(text, targetWords)
ApplyTruncate ==
  Applied("sentenceAwareTruncate",
          sentenceAwareTruncate(app.in.text, app.in.targetWords))

SpecTruncate == InitTruncate /\ [][ApplyTruncate]_vars

\* ------------------------------------------- getGradeFromScore, getCategory
\* The largest score: calculatePrivacyScore returns 0..100.
MaxScore == 100

InitGrade ==
  /\ InitProgram
  /\ app \in {Applying(f, score) :
                f \in {"getGradeFromScore", "getCategory"}, score \in 0..MaxScore}

\* getGradeFromScore(score)
ApplyGrade == Applied("getGradeFromScore", getGradeFromScore(app.in))

\* getCategory(score)
ApplyCategory == Applied("getCategory", getCategory(app.in))

NextGrade == ApplyGrade \/ ApplyCategory

SpecGrade == InitGrade /\ [][NextGrade]_vars

\* --------------------------------------------------------- responses
\* res.status(200).json(...) on a cache hit
CacheHitResponse(existingSite) ==
  [status |-> 200, success |-> TRUE,
   message |-> "Site data retrieved from cache", warning |-> Null,
   error |-> Null, site |-> CacheHitSite(existingSite)]

\* res.status(201).json(...): site is the stored document, or the local object
\* when the store is not connected (dbError set)
AnalyzedResponse(site, dbError) ==
  [status |-> 201, success |-> TRUE, message |-> "Site analyzed successfully",
   warning |-> IF dbError = Null THEN Null ELSE "Database issue",
   error |-> Null, site |-> FreshSite(site)]

\* The outer catch of analyzeSite, and the detection-failed response
ErrorResponse(message) ==
  [status |-> 500, success |-> FALSE, message |-> Null, warning |-> Null,
   error |-> message, site |-> None]

\* The catch of the findOneAndUpdate try block: it reads siteData, a const of
\* the try block, out of its scope; the ReferenceError reaches the outer catch.
UpsertErrorResponse(siteData) == ErrorResponse("siteData is not defined")

\* A catch block for which a timeout is as fatal as any other error.
DetectResultTimeoutFatal(navError, detected) ==
  IF navError # Null
    THEN [success |-> FALSE, detectedTrackers |-> <<>>, error |-> navError]
    ELSE [success |-> TRUE, detectedTrackers |-> SetToSortedSeq(detected),
          error |-> Null]

\* detectTrackers' return value after the finally block
DetectResult(navError, detected) ==
  IF navError = "Error"
    THEN [success |-> FALSE, detectedTrackers |-> <<>>, error |-> "Error"]
    ELSE [success |-> TRUE, detectedTrackers |-> SetToSortedSeq(detected),
          error |-> Null]

\* A detectTrackers that closes the browser on the way out of the try block
\* only, so not after an error that is not a timeout.
SessionClosedInTryOnly(session, navError) ==
  IF session = "open" /\ navError # "Error" THEN "closed" ELSE session

\* finally { if (browser) await browser.close() }
SessionAfterFinally(session, navError) ==
  IF session = "open" THEN "closed" ELSE session

\* ------------------------------------------- detectTrackers, await by await
\* The hostnames a page of url can add to detectedTrackers.
Observable(url, options) ==
  UNION {TrackerOf[q, url, options.includeFirstParty] : q \in PageRequests}

DetSet(rec) == det' = rec

\* detectTrackers(url, options) is called: new URL(url) is outside the try
\* block and raises on a string it rejects; otherwise puppeteer.launch starts.
DetectCall(url, options) ==
  /\ det.pc \in {"idle", "returned", "raised"}
  /\ det.made < MaxDetect
  /\ LET fresh == [IdleDetect EXCEPT !.url = url, !.options = options,
                                     !.made = det.made + 1]
     IN IF IsValidUrl(url)
          THEN DetSet([fresh EXCEPT !.pc = "launch"])
          ELSE DetSet([fresh EXCEPT !.pc = "raised"])
  /\ UNCHANGED <<now, ticks, dbConnected, credential, store, aiCache, rq, call, batch, app, ext>>

\* puppeteer.launch resolves; the page is set up and the request hook is on.
LaunchOk ==
  /\ det.pc = "launch"
  /\ DetSet([det EXCEPT !.pc = "goto", !.session = "open", !.launches = @ + 1])
  /\ UNCHANGED <<now, ticks, dbConnected, credential, store, aiCache, rq, call, batch, app, ext>>

\* puppeteer.launch rejects: browser stays null; catch, finally, return.
LaunchFail(name) ==
  /\ det.pc = "launch"
  /\ DetSet([det EXCEPT !.pc = "returned", !.navError = name,
               !.session = SessionAfterFinally(det.session, name),
               !.result = DetectResult(name, det.detected)])
  /\ UNCHANGED <<now, ticks, dbConnected, credential, store, aiCache, rq, call, batch, app, ext>>

\* page.on('request') fires: any time between the hook's registration and the
\* end of browser.close().
Observe(q) ==
  /\ det.session = "open"
  /\ det.pc \in {"goto", "simulate", "consent", "hover", "mouseover", "pause",
                "scrollUp", "settle", "closing"}
  /\ DetSet([det EXCEPT !.detected =
               @ \cup TrackerOf[q, det.url, det.options.includeFirstParty]])
  /\ UNCHANGED <<now, ticks, dbConnected, credential, store, aiCache, rq, call, batch, app, ext>>

\* page.goto resolves.
GotoOk ==
  /\ det.pc = "goto"
  /\ DetSet([det EXCEPT !.pc = IF det.options.waitForInteractions
                                 THEN "simulate" ELSE "settle"])
  /\ UNCHANGED <<now, ticks, dbConnected, credential, store, aiCache, rq, call, batch, app, ext>>

\* page.goto (or the page setup before it) rejects, with a TimeoutError or
\* another error: the catch block runs, then the finally block awaits close.
GotoFail(name) ==
  /\ det.pc = "goto"
  /\ DetSet([det EXCEPT !.pc = "closing", !.navError = name,
                        !.atTimeout = det.detected])
  /\ UNCHANGED <<now, ticks, dbConnected, credential, store, aiCache, rq, call, batch, app, ext>>

\* simulateUserBehavior returns: it swallows every error of its steps.
Simulate(failed) ==
  /\ det.pc = "simulate"
  /\ DetSet([det EXCEPT !.pc = "settle", !.simFailed = failed])
  /\ UNCHANGED <<now, ticks, dbConnected, credential, store, aiCache, rq, call, batch, app, ext>>

\* waitForTimeout(page, 2000) resolves, or rejects with a plain error.
Settle(ok) ==
  /\ det.pc = "settle"
  /\ DetSet([det EXCEPT !.pc = "closing",
                        !.navError = IF ok THEN Null ELSE "Error"])
  /\ UNCHANGED <<now, ticks, dbConnected, credential, store, aiCache, rq, call, batch, app, ext>>

\* The finally block: browser.close() resolves and detectTrackers returns.
Close ==
  /\ det.pc = "closing"
  /\ DetSet([det EXCEPT !.pc = "returned",
               !.session = SessionAfterFinally(det.session, det.navError),
               !.result = DetectResult(det.navError, det.detected)])
  /\ UNCHANGED <<now, ticks, dbConnected, credential, store, aiCache, rq, call, batch, app, ext>>

\* ------------------------------ detectTrackersForMultipleUrls, await by await
\* The urls arrays of the batch calls.
BatchLists == UNION {[1..n -> Urls] : n \in 0..MaxBatch}

\* A push that leaves out the entries of failed detections.
PushedOnSuccessOnly(results, entry) ==
  IF entry.success THEN Append(results, entry) ELSE results

\* results.push(entry)
Pushed(results, entry) == Append(results, entry)

\* The object detectTrackers returned, as an entry of results: the success
\* object has a url property, the failure object of the catch block has none.
ReturnedEntry(url, result) ==
  [url |-> IF result.success THEN url ELSE Undefined,
   success |-> result.success, detectedTrackers |-> result.detectedTrackers,
   error |-> result.error]

\* The entry of the batch's catch block.
RaisedEntry(url, message) ==
  [url |-> url, success |-> FALSE, detectedTrackers |-> <<>>, error |-> message]

\* The for loop moves to the next url, or ends and results is returned.
NextUrl(cur) ==
  IF cur.i < Len(cur.urls)
    THEN [cur EXCEPT !.pc = "loop", !.i = @ + 1]
    ELSE [cur EXCEPT !.pc = "returned"]

\* detectTrackersForMultipleUrls(urls, options) is called.
BatchCall(urls, options) ==
  /\ batch.pc = "idle"
  /\ batch' = IF urls = <<>>
                THEN [IdleBatch EXCEPT !.pc = "returned", !.options = options]
                ELSE [IdleBatch EXCEPT !.pc = "loop", !.urls = urls,
                                       !.options = options]
  /\ UNCHANGED <<now, ticks, dbConnected, credential, store, aiCache, rq, det, call, app, ext>>

\* The loop body calls detectTrackers(url, options) and awaits it.
BatchDetect ==
  /\ batch.pc = "loop"
  /\ LET url == batch.urls[batch.i]
         fresh == [IdleDetect EXCEPT !.url = url, !.options = batch.options,
                                     !.made = batch.i]
     IN IF IsValidUrl(url)
          THEN DetSet([fresh EXCEPT !.pc = "launch"])
          ELSE DetSet([fresh EXCEPT !.pc = "raised"])
  /\ batch' = [batch EXCEPT !.pc = "detect"]
  /\ UNCHANGED <<now, ticks, dbConnected, credential, store, aiCache, rq, call, app, ext>>

\* A loop that waits after a detectTrackers call that raised as well.
BatchCollectThenDelay ==
  /\ batch.pc = "detect"
  /\ det.pc \in {"returned", "raised"}
  /\ batch' =
       [batch EXCEPT !.pc = "delay",
          !.results = Pushed(@, IF det.pc = "returned"
                                  THEN ReturnedEntry(det.url, det.result)
                                  ELSE RaisedEntry(det.url, "Invalid URL"))]
  /\ UNCHANGED <<now, ticks, dbConnected, credential, store, aiCache, rq, det, call, app, ext>>

\* The awaited detectTrackers call settles: its result is pushed and
\* delay(1000) starts, or the catch block pushes its entry and the loop goes on.
BatchCollect ==
  /\ batch.pc = "detect"
  /\ det.pc \in {"returned", "raised"}
  /\ batch' =
       IF det.pc = "returned"
         THEN [batch EXCEPT !.pc = "delay",
                 !.results = Pushed(@, ReturnedEntry(det.url, det.result))]
         ELSE NextUrl([batch EXCEPT
                 !.results = Pushed(@, RaisedEntry(det.url, "Invalid URL"))])
  /\ UNCHANGED <<now, ticks, dbConnected, credential, store, aiCache, rq, det, call, app, ext>>

\* delay(1000) resolves.
BatchDelay ==
  /\ batch.pc = "delay"
  /\ batch' = NextUrl(batch)
  /\ UNCHANGED <<now, ticks, dbConnected, credential, store, aiCache, rq, det, call, app, ext>>

\* ------------------------------------------------------ analyzeSite steps
Set(r, rec) == rq' = [rq EXCEPT ![r] = rec]

\* The errors detectTrackers' catch block may see; Null: none.
NavErrors == {Null, "TimeoutError", "Error"}

\* Every hostname some page of the model can add to detectedTrackers.
AllTrackers ==
  UNION {Observable(u, DefaultOptions) : u \in {v \in Urls : IsValidUrl(v)}}

\* await detectTrackers(url) begins: a string new URL() rejects raises into
\* analyzeSite's catch.
BeginDetect(cur) ==
  IF IsValidUrl(cur.url)
    THEN [cur EXCEPT !.pc = "detect", !.calls = @ \cup {"detect"}]
    ELSE [cur EXCEPT !.pc = "done", !.calls = @ \cup {"detect"},
                     !.resp = ErrorResponse("Invalid URL")]

\* From the summary to the store: the score, the grade, siteData, and either
\* the upsert (connected) or the response with a warning (not connected).
ToStore(cur, site, connected) ==
  IF connected
    THEN [cur EXCEPT !.siteData = site, !.pc = "upsert",
                     !.calls = @ \cup {"score", "upsert"}]
    ELSE [cur EXCEPT !.siteData = site, !.pc = "done",
                     !.calls = @ \cup {"score"},
                     !.resp = AnalyzedResponse(site, "Database not connected")]

AfterSummary(cur, ai, path, t, connected) ==
  ToStore([cur EXCEPT !.aiSummary = ai, !.aiPath = path],
          SiteData(cur.url, cur.simplifiedPolicy,
                   cur.trackerResult.detectedTrackers, ai, t),
          connected)

\* POST /analyze arrives: the body is read (forceRefresh is not), and the
\* handler runs to its first await.
Start(r, url, simplifiedPolicy, forceRefresh) ==
  /\ rq[r].pc = "idle"
  /\ IF r = 1 THEN TRUE ELSE rq[r - 1].pc # "idle"
  /\ LET cur == [rq[r] EXCEPT !.url = url,
                              !.simplifiedPolicy = simplifiedPolicy,
                              !.forceRefresh = forceRefresh]
     IN IF dbConnected
          THEN Set(r, [cur EXCEPT !.pc = "lookup", !.calls = @ \cup {"findOne"}])
          ELSE Set(r, BeginDetect(cur))
  /\ UNCHANGED <<now, ticks, dbConnected, credential, store, aiCache, det, call, batch, app, ext>>

\* Site.findOne resolves.
Lookup(r) ==
  /\ rq[r].pc = "lookup"
  /\ IF rq[r].url \in DOMAIN store /\ isCacheValid(store[rq[r].url], now)
       THEN Set(r, [rq[r] EXCEPT !.pc = "done",
                                 !.resp = CacheHitResponse(store[rq[r].url])])
       ELSE Set(r, BeginDetect(rq[r]))
  /\ UNCHANGED <<now, ticks, dbConnected, credential, store, aiCache, det, call, batch, app, ext>>

\* Site.findOne rejects.
LookupFail(r) ==
  /\ rq[r].pc = "lookup"
  /\ Set(r, [rq[r] EXCEPT !.pc = "done", !.resp = ErrorResponse("findOne failed")])
  /\ UNCHANGED <<now, ticks, dbConnected, credential, store, aiCache, det, call, batch, app, ext>>

\* generateAIPrivacySummary has run to its first await (sync).
Summarizing(r, cur, sync) ==
  IF sync.kind = "await"
    THEN /\ Set(r, [cur EXCEPT !.pc = "generate"])
         /\ UNCHANGED aiCache
    ELSE /\ Set(r, AfterSummary(cur, sync.result, sync.kind, now, dbConnected))
         /\ aiCache' = sync.cache

\* An analyzeSite that does not look at trackerResult.success.
DetectedUnchecked(r, cur) ==
  Summarizing(r, [cur EXCEPT !.calls = @ \cup {"summarize"}],
              SummarizeSync(cur.trackerResult.detectedTrackers, cur.url,
                            aiCache, credential, now))

\* trackerResult is in: the failure response, or on to the summarizer.
Detected(r, cur) ==
  IF ~cur.trackerResult.success
    THEN /\ Set(r, [cur EXCEPT !.pc = "done",
                     !.resp = ErrorResponse("Failed to analyze website trackers")])
         /\ UNCHANGED aiCache
    ELSE Summarizing(r, [cur EXCEPT !.calls = @ \cup {"summarize"}],
                     SummarizeSync(cur.trackerResult.detectedTrackers, cur.url,
                                   aiCache, credential, now))

\* detectTrackers returns, having caught navError (or nothing) and seen the
\* hostnames detected.  Its awaits touch nothing but the call's own session
\* and set, so the call is one step here.
Detect(r, navError, detected) ==
  /\ rq[r].pc = "detect"
  /\ detected \subseteq Observable(rq[r].url, DefaultOptions)
  /\ Detected(r, [rq[r] EXCEPT
                    !.trackerResult = DetectResult(navError, detected)])
  /\ UNCHANGED <<now, ticks, dbConnected, credential, store, det, call, batch, app, ext>>

\* generateAIPrivacySummary has settled (done): it raised into analyzeSite's
\* catch, or it returned the summary.
Summarized(r, path, done) ==
  /\ aiCache' = done.cache
  /\ IF done.raised
       THEN Set(r, [rq[r] EXCEPT !.pc = "done", !.aiPath = path,
                                 !.resp = ErrorResponse("Invalid URL")])
       ELSE Set(r, AfterSummary(rq[r], done.result, path, now, dbConnected))

Generate(r, outcome) ==
  /\ rq[r].pc = "generate"
  /\ Summarized(r, outcome.kind,
                SummarizeSettle(rq[r].trackerResult.detectedTrackers,
                                rq[r].url, outcome, aiCache, now))
  /\ UNCHANGED <<now, ticks, dbConnected, credential, store, det, call, batch, app, ext>>

\* Site.findOneAndUpdate resolves: the document is written and returned.
UpsertOk(r) ==
  /\ rq[r].pc = "upsert"
  /\ LET doc == SchemaCast(rq[r].siteData)
     IN /\ store' = [u \in DOMAIN store \cup {rq[r].url} |->
                       IF u = rq[r].url THEN doc ELSE store[u]]
        /\ Set(r, [rq[r] EXCEPT !.pc = "done",
                                !.resp = AnalyzedResponse(doc, Null)])
  /\ UNCHANGED <<now, ticks, dbConnected, credential, aiCache, det, call, batch, app, ext>>

\* Site.findOneAndUpdate rejects.
UpsertFail(r) ==
  /\ rq[r].pc = "upsert"
  /\ Set(r, [rq[r] EXCEPT !.pc = "done",
                          !.resp = UpsertErrorResponse(rq[r].siteData)])
  /\ UNCHANGED <<now, ticks, dbConnected, credential, store, aiCache, det, call, batch, app, ext>>

\* --------------------------------- generateAIPrivacySummary, called directly
CallSet(rec) == call' = rec

\* generateAIPrivacySummary(trackers, url) runs to its first await.
Summarize(trackers, url) ==
  /\ call.pc \in {"idle", "returned", "raised"}
  /\ call.made < MaxCalls
  /\ LET sync == SummarizeSync(trackers, url, aiCache, credential, now)
         cur == [call EXCEPT !.given = trackers,
                             !.trackers = SortStrings(trackers), !.url = url,
                             !.made = @ + 1, !.path = sync.kind,
                             !.result = sync.result]
     IN /\ aiCache' = sync.cache
        /\ IF sync.kind = "await"
             THEN CallSet([cur EXCEPT !.pc = "await"])
             ELSE CallSet([cur EXCEPT !.pc = "returned"])
  /\ UNCHANGED <<now, ticks, dbConnected, credential, store, rq, det, batch, app, ext>>

\* model.generateContent settles.
SummarizeDone(outcome) ==
  /\ call.pc = "await"
  /\ LET done == SummarizeSettle(call.trackers, call.url, outcome, aiCache, now)
     IN /\ aiCache' = done.cache
        /\ CallSet([call EXCEPT !.pc = IF done.raised THEN "raised" ELSE "returned",
                                !.path = outcome.kind, !.result = done.result])
  /\ UNCHANGED <<now, ticks, dbConnected, credential, store, rq, det, batch, app, ext>>

\* ------------------------------------------------------------ environment
\* The code reads the clock to stamp a record or a memo entry and to take the
\* age of one, so time passing before the first stamp changes nothing.
Stamped ==
  \/ DOMAIN store # {}
  \/ DOMAIN aiCache # {}
  \/ \E r \in Reqs : rq[r].pc = "upsert"

\* A jump of the clock is minutes or hours long and a request takes seconds:
\* the clock jumps between requests, while one is still to come.
Tick(d) ==
  /\ ticks < MaxTicks
  /\ Stamped
  /\ \A r \in Reqs : rq[r].pc \in {"idle", "done"}
  /\ \E r \in Reqs : rq[r].pc = "idle"
  /\ now' = now + d
  /\ ticks' = ticks + 1
  /\ UNCHANGED <<dbConnected, credential, store, aiCache, rq, det, call, batch, app, ext>>

\* The mongoose connection drops or comes back.
DbChange ==
  /\ dbConnected' = ~dbConnected
  /\ UNCHANGED <<now, ticks, credential, store, aiCache, rq, det, call, batch, app, ext>>

\* --------------------------------------------------------- specifications
\* The orchestrator: concurrent analyzeSite requests.
Next ==
  \/ \E r \in Reqs, u \in Urls, p \in Policies, f \in BOOLEAN : Start(r, u, p, f)
  \/ \E r \in Reqs : Lookup(r)
  \/ \E r \in Reqs : LookupFail(r)
  \/ \E r \in Reqs, e \in NavErrors, d \in SUBSET AllTrackers : Detect(r, e, d)
  \/ \E r \in Reqs, o \in Outcomes : Generate(r, o)
  \/ \E r \in Reqs : UpsertOk(r)
  \/ \E r \in Reqs : UpsertFail(r)
  \/ \E d \in Jumps : Tick(d)
  \/ DbChange

Spec == Init /\ [][Next]_vars

\* The crawler alone: detectTrackers calls, one after another.
NextDetect ==
  \/ \E u \in Urls, o \in DetectOptions : DetectCall(u, o)
  \/ LaunchOk
  \/ \E name \in {"TimeoutError", "Error"} : LaunchFail(name)
  \/ \E q \in PageRequests : Observe(q)
  \/ GotoOk
  \/ \E name \in {"TimeoutError", "Error"} : GotoFail(name)
  \/ \E failed \in BOOLEAN : Simulate(failed)
  \/ \E ok \in BOOLEAN : Settle(ok)
  \/ Close

SpecDetect == Init /\ [][NextDetect]_vars

\* The crawler on pages that request their own host.
NextCrawl ==
  \/ \E u \in CrawlUrls, o \in DetectOptions : DetectCall(u, o)
  \/ LaunchOk
  \/ \E name \in {"TimeoutError", "Error"} : LaunchFail(name)
  \/ \E q \in PageRequests \cup CrawlRequests : Observe(q)
  \/ GotoOk
  \/ \E name \in {"TimeoutError", "Error"} : GotoFail(name)
  \/ \E failed \in BOOLEAN : Simulate(failed)
  \/ \E ok \in BOOLEAN : Settle(ok)
  \/ Close

SpecCrawl == Init /\ [][NextCrawl]_vars

\* The batch crawler: one detectTrackersForMultipleUrls call.
NextBatch ==
  \/ \E l \in BatchLists, o \in {DefaultOptions} : BatchCall(l, o)
  \/ BatchDetect
  \/ LaunchOk
  \/ \E name \in {"TimeoutError", "Error"} : LaunchFail(name)
  \/ \E q \in PageRequests : Observe(q)
  \/ GotoOk
  \/ \E name \in {"TimeoutError", "Error"} : GotoFail(name)
  \/ \E failed \in BOOLEAN : Simulate(failed)
  \/ \E ok \in BOOLEAN : Settle(ok)
  \/ Close
  \/ BatchCollect
  \/ BatchDelay

SpecBatch == Init /\ [][NextBatch]_vars

\* The summarizer alone: generateAIPrivacySummary calls, one after another.
NextSum ==
  \/ \E l \in TrackerLists, u \in SumUrls : Summarize(l, u)
  \/ \E o \in Outcomes : SummarizeDone(o)
  \/ \E d \in Jumps \cup MemoJumps : Tick(d)

SpecSum == Init /\ [][NextSum]_vars



\* ---------------------------------------------------------------- properties
\* C1: once tracker detection has succeeded, a failure of the store (not
\* connected, or the upsert raising) does not fail the request: the response
\* has success = true, a warning, and the freshly computed site.
StorageFailureNeverFails ==
  [][\A r \in Reqs :
       (\/ UpsertFail(r)
        \/ /\ rq[r].pc \in {"detect", "generate"}
           /\ rq'[r].pc = "done"
           /\ "score" \in rq'[r].calls)
       => /\ rq'[r].resp.success
          /\ rq'[r].resp.warning # Null
          /\ rq'[r].resp.site = FreshSite(rq'[r].siteData)]_vars

\* C2: a request with forceRefresh = true is never answered from the stored
\* record.
ForceRefreshBypassesCache ==
  \A r \in Reqs :
    (rq[r].pc = "done" /\ rq[r].forceRefresh) => rq[r].resp.status # 200

\* C3: with forceRefresh false and a stored record of age a, the lookup
\* answers from the record iff a < 48 hours when the stored summary
\* succeeded and iff a < 30 minutes when it failed; at the bound and beyond
\* the crawler is called.
CacheTtlBoundaries ==
  [][\A r \in Reqs :
       (Lookup(r) /\ ~rq[r].forceRefresh /\ rq[r].url \in DOMAIN store)
       => LET record == store[rq[r].url]
              age == now - record.lastAnalyzed
              ttl == IF record.aiSummary.success
                       THEN 48 * 60 * 60 * 1000
                       ELSE 30 * 60 * 1000
          IN /\ (rq'[r].pc = "done" /\ rq'[r].resp.status = 200) <=> age < ttl
             /\ age >= ttl => "detect" \in rq'[r].calls]_vars

\* C3 witness: a lookup found a record with a successful summary exactly 48
\* hours old and went on to the crawler.
StaleAtExactlyTtl ==
  \E r \in Reqs :
    /\ rq[r].pc = "detect"
    /\ "findOne" \in rq[r].calls
    /\ ~rq[r].forceRefresh
    /\ rq[r].url \in DOMAIN store
    /\ store[rq[r].url].aiSummary.success
    /\ now - store[rq[r].url].lastAnalyzed = 48 * 60 * 60 * 1000

\* C4: the step that answers from the stored record returns its url, score,
\* grade, category, trackers, policy text, aiSummary and lastAnalyzed as
\* stored, calls neither the crawler nor the summarizer nor the score
\* calculator, and leaves the store and the summary memo as they were.
CacheHitIsReadOnly ==
  [][\A r \in Reqs :
       (Lookup(r) /\ rq'[r].pc = "done" /\ rq'[r].resp.status = 200)
       => LET record == store[rq[r].url]
              site == rq'[r].resp.site
          IN /\ site.url = record.url
             /\ site.score = record.score
             /\ site.grade = record.grade
             /\ site.category = record.category
             /\ site.trackers = record.trackers
             /\ site.simplifiedPolicy = record.simplifiedPolicy
             /\ site.aiSummary = record.aiSummary
             /\ site.lastAnalyzed = record.lastAnalyzed
             /\ rq'[r].calls = {"findOne"}
             /\ store' = store
             /\ aiCache' = aiCache]_vars

\* C4 witness: a request was answered from a stored record that lists
\* trackers.
CacheHitHappened ==
  \E r \in Reqs :
    /\ rq[r].pc = "done"
    /\ rq[r].resp.status = 200
    /\ rq[r].resp.site.trackers # <<>>

\* C5: a detectTrackers call that has returned or raised has no open browser
\* session, whatever the exit path, and no call launches more than one.
SessionAlwaysClosed ==
  /\ det.launches <= 1
  /\ det.pc \in {"returned", "raised"} => det.session # "open"

\* C5 witness: a call returned after a launched session met an error that is
\* not a timeout, and the session is closed.
ClosedAfterError ==
  /\ det.pc = "returned"
  /\ det.navError = "Error"
  /\ det.launches = 1
  /\ det.session = "closed"

\* C6, as claimed: after a navigation timeout detectTrackers returns success
\* with exactly the hostnames seen before the timeout.
TimeoutReturnsExactlyEarlier ==
  (det.pc = "returned" /\ det.navError = "TimeoutError")
  => /\ det.result.success
     /\ det.result.detectedTrackers = SetToSortedSeq(det.atTimeout)

\* C6, amended: after a navigation timeout detectTrackers returns success with
\* every hostname the request hook saw while the session was open: those
\* seen before the timeout and those seen while the browser was closing.
TimeoutReturnsAllObserved ==
  (det.pc = "returned" /\ det.navError = "TimeoutError")
  => /\ det.result.success
     /\ det.result.detectedTrackers = SetToSortedSeq(det.detected)
     /\ det.atTimeout \subseteq det.detected

\* C6 witness: a call returned after a timeout that came when a tracker had
\* been seen.
TimeoutAfterTracker ==
  /\ det.pc = "returned"
  /\ det.navError = "TimeoutError"
  /\ det.atTimeout # {}

\* C7: when the crawler meets an error that is not a timeout it returns
\* success = false with no trackers, and analyzeSite answers with an error
\* without calling the summarizer or the score calculator and without writing
\* the store.
DetectionFailureAborts ==
  [][\A r \in Reqs, d \in SUBSET AllTrackers :
       Detect(r, "Error", d)
       => /\ rq'[r].trackerResult =
               [success |-> FALSE, detectedTrackers |-> <<>>, error |-> "Error"]
          /\ rq'[r].pc = "done"
          /\ ~rq'[r].resp.success
          /\ rq'[r].resp.status = 500
          /\ rq'[r].calls \cap {"summarize", "score", "upsert"} = {}
          /\ store' = store
          /\ aiCache' = aiCache]_vars

\* C7 witness: detection failed for a URL that has a stored record.
FailedWithRecord ==
  \E r \in Reqs :
    /\ rq[r].pc = "done"
    /\ rq[r].resp.error = "Failed to analyze website trackers"
    /\ ~rq[r].trackerResult.success
    /\ rq[r].url \in DOMAIN store

\* C8: generateAIPrivacySummary never raises to its caller.
SummarizerNeverRaises == call.pc # "raised"

\* C9: when two requests for one URL have both run the pipeline up to the
\* upsert and finished, both got a success response and the store holds for
\* the URL the record of one of them.
BothSucceedLastWriteWins ==
  \A r1, r2 \in Reqs :
    (/\ r1 # r2
     /\ rq[r1].pc = "done" /\ rq[r2].pc = "done"
     /\ rq[r1].url = rq[r2].url
     /\ "upsert" \in rq[r1].calls /\ "upsert" \in rq[r2].calls)
    => /\ rq[r1].resp.success /\ rq[r2].resp.success
       /\ rq[r1].url \in DOMAIN store
       /\ store[rq[r1].url] \in
            {SchemaCast(rq[r1].siteData), SchemaCast(rq[r2].siteData)}

\* C10, as claimed: in the scenario with the summarizer unavailable (no
\* credential, or the external call raising) whoTheyShareWith contains
\* "Google", the score is 45 and the grade is D.
ScenarioUnavailable ==
  \A r \in Reqs :
    (/\ "score" \in rq[r].calls
     /\ rq[r].url = <<"h","t","t","p","s",":","/","/","e","x","a","m","p","l","e",".","c","o","m">>
     /\ rq[r].simplifiedPolicy = Undefined
     /\ rq[r].trackerResult.detectedTrackers =
          <<<<"d","o","u","b","l","e","c","l","i","c","k",".","n","e","t">>, <<"g","o","o","g","l","e","-","a","n","a","l","y","t","i","c","s",".","c","o","m">>>>
     /\ rq[r].aiPath \in {"nokey", "raise"})
    => /\ <<"G","o","o","g","l","e">> \in Range(rq[r].aiSummary.summary.whoTheyShareWith.v)
       /\ rq[r].siteData.score = 45
       /\ rq[r].siteData.grade = "D"

\* C10, amended: in the scenario the score is 45 and the grade is D both
\* without a credential and when the external call raises; whoTheyShareWith
\* contains "Google" when the external call raises and is empty without a
\* credential.
ScenarioByCause ==
  \A r \in Reqs :
    (/\ "score" \in rq[r].calls
     /\ rq[r].url = <<"h","t","t","p","s",":","/","/","e","x","a","m","p","l","e",".","c","o","m">>
     /\ rq[r].simplifiedPolicy = Undefined
     /\ rq[r].trackerResult.detectedTrackers =
          <<<<"d","o","u","b","l","e","c","l","i","c","k",".","n","e","t">>, <<"g","o","o","g","l","e","-","a","n","a","l","y","t","i","c","s",".","c","o","m">>>>
     /\ rq[r].aiPath \in {"nokey", "raise"})
    => /\ rq[r].siteData.score = 45
       /\ rq[r].siteData.grade = "D"
       /\ ~rq[r].aiSummary.success
       /\ rq[r].aiPath = "raise"
            => <<"G","o","o","g","l","e">> \in Range(rq[r].aiSummary.summary.whoTheyShareWith.v)
       /\ rq[r].aiPath = "nokey"
            => rq[r].aiSummary.summary.whoTheyShareWith.v = <<>>

\* C10 witness: the scenario was scored after the external call raised.
ScenarioAfterRaise ==
  \E r \in Reqs :
    /\ rq[r].pc = "done"
    /\ "score" \in rq[r].calls
    /\ rq[r].url = <<"h","t","t","p","s",":","/","/","e","x","a","m","p","l","e",".","c","o","m">>
    /\ rq[r].simplifiedPolicy = Undefined
    /\ rq[r].trackerResult.detectedTrackers =
         <<<<"d","o","u","b","l","e","c","l","i","c","k",".","n","e","t">>, <<"g","o","o","g","l","e","-","a","n","a","l","y","t","i","c","s",".","c","o","m">>>>
    /\ rq[r].aiPath = "raise"

\* C11: when the previous generateAIPrivacySummary call stored its result
\* and the next call has the same URL and the same trackers in some order,
\* then while the entry is less than 24 hours old the call returns the stored
\* result, waits for no external call and leaves the memo as it was, and
\* from 24 hours on the entry is not served.
MemoServedWithinExpiry ==
  [][\A l \in TrackerLists, u \in SumUrls :
       (/\ Summarize(l, u)
        /\ call.pc = "returned"
        /\ call.path \in {"nokey", "json", "text"}
        /\ call.url = u
        /\ Len(call.given) = Len(l)
        /\ Range(call.given) = Range(l))
       => LET entry == aiCache[CacheKey(u, l)]
          IN IF now - entry.timestamp < 24 * 60 * 60 * 1000
               THEN /\ call'.pc = "returned"
                    /\ call'.path = "hit"
                    /\ call'.result = call.result
                    /\ call'.result = entry.data
                    /\ aiCache' = aiCache
               ELSE /\ call'.path # "hit"
                    /\ call'.pc = "await" \/ call'.path = "nokey"]_vars

\* A call with the trackers in another order was served from an entry one
\* millisecond short of 24 hours old.
MemoHitJustBeforeExpiry ==
  /\ call.made = 2
  /\ call.path = "hit"
  /\ call.given = <<<<"g","o","o","g","l","e","-","a","n","a","l","y","t","i","c","s",".","c","o","m">>, <<"d","o","u","b","l","e","c","l","i","c","k",".","n","e","t">>>>
  /\ call.given # call.trackers
  /\ now - aiCache[CacheKey(call.url, call.given)].timestamp = 24 * 60 * 60 * 1000 - 1

\* C12: a generateAIPrivacySummary call made with no credential configured
\* and no memo entry under its key younger than 24 hours waits for no
\* external call, returns success false with an explanatory note and empty
\* whatTheyCollect, whoTheyShareWith, keyRisks and trackerBreakdown, and
\* leaves that payload in the memo under the call's key, stamped with the
\* time of the call, every other entry as it was.
NoCredentialPayloadStored ==
  [][\A l \in TrackerLists, u \in SumUrls :
       (/\ Summarize(l, u)
        /\ ~credential
        /\ \A k \in DOMAIN aiCache :
             k = CacheKey(u, l) => now - aiCache[k].timestamp >= 24 * 60 * 60 * 1000)
       => /\ call'.pc = "returned"
          /\ call'.result.success = FALSE
          /\ call'.result.note = "AI analysis unavailable - API key missing"
          /\ call'.result.summary.whatTheyCollect = Arr(<<>>)
          /\ call'.result.summary.whoTheyShareWith = Arr(<<>>)
          /\ call'.result.summary.keyRisks = Arr(<<>>)
          /\ call'.result.summary.trackerBreakdown = Arr(<<>>)
          /\ DOMAIN aiCache' = DOMAIN aiCache \cup {CacheKey(u, l)}
          /\ aiCache'[CacheKey(u, l)] = [data |-> call'.result, timestamp |-> now]
          /\ \A k \in DOMAIN aiCache : k # CacheKey(u, l) => aiCache'[k] = aiCache[k]]_vars

\* Without a credential, a second call replaced an entry that had expired.
ExpiredEntryReplacedWithoutCredential ==
  /\ ~credential
  /\ call.made = 2
  /\ call.pc = "returned"
  /\ call.path = "nokey"
  /\ now >= 24 * 60 * 60 * 1000
  /\ aiCache[CacheKey(call.url, call.given)].timestamp = now
  /\ aiCache[CacheKey(call.url, call.given)].data = call.result

\* C13: detectTrackersForMultipleUrls returns one entry per URL of its
\* input, in input order: a success entry carries its URL and trackers a
\* page of that URL can produce, and the entry of a URL whose detection
\* raised or failed has success false, an error and no trackers.  A failure
\* stops nothing: entries already pushed are never changed, and the loop
\* goes on to the next URL.
BatchOneEntryPerUrl ==
  /\ [](batch.pc = "returned" =>
          /\ Len(batch.results) = Len(batch.urls)
          /\ \A j \in 1..Len(batch.urls) :
               LET entry == batch.results[j]
               IN IF entry.success
                    THEN /\ entry.url = batch.urls[j]
                         /\ entry.error = Null
                         /\ Range(entry.detectedTrackers)
                              \subseteq Observable(batch.urls[j], batch.options)
                    ELSE /\ entry.detectedTrackers = <<>>
                         /\ entry.error # Null
                         /\ entry.url \in {batch.urls[j], Undefined})
  /\ [][batch.pc # "idle" =>
          /\ Len(batch'.results) \in {Len(batch.results), Len(batch.results) + 1}
          /\ \A j \in 1..Len(batch.results) : batch'.results[j] = batch.results[j]
          /\ (Len(batch'.results) > Len(batch.results)
                /\ ~batch'.results[Len(batch'.results)].success
                /\ batch.i < Len(batch.urls))
               => batch'.pc \in {"loop", "delay"}]_vars

\* A batch of three URLs returned: the second raised, the first and the
\* third succeeded with trackers.
BatchSecondOfThreeRaised ==
  /\ batch.pc = "returned"
  /\ Len(batch.urls) = 3
  /\ batch.results[1].success /\ batch.results[1].detectedTrackers # <<>>
  /\ ~batch.results[2].success /\ batch.results[2].error = "Invalid URL"
  /\ batch.results[3].success /\ batch.results[3].detectedTrackers # <<>>

\* C14: with includeFirstParty false the tracker set of a detectTrackers
\* call, and the list it returns, never hold the hostname of the URL it was
\* called with, whichever signal the page's requests to its own host match;
\* with includeFirstParty true a request to the page's own host adds that
\* hostname exactly when the hostname contains a tracker list entry, or
\* matches a host pattern, or the request URL matches a URL pattern.
FirstPartyExcludedUnlessAsked ==
  /\ []((det.pc \notin {"idle", "raised"} /\ ~det.options.includeFirstParty)
          => /\ PageHost[det.url] \notin det.detected
             /\ det.pc = "returned"
                  => PageHost[det.url] \notin Range(det.result.detectedTrackers))
  /\ [][\A q \in PageRequests \cup CrawlRequests :
          (/\ Observe(q)
           /\ det.options.includeFirstParty
           /\ RequestHost[q] = PageHost[det.url])
          => det'.detected =
               IF TrackerSignal[q]
                 THEN det.detected \cup {PageHost[det.url]}
                 ELSE det.detected]_vars

\* With includeFirstParty false, a page on a listed tracker host has
\* requested its own host and a third party, and only the third party is in
\* the returned list.
OwnTrackerHostLeftOut ==
  /\ det.pc = "returned"
  /\ ~det.options.includeFirstParty
  /\ det.url = <<"h","t","t","p","s",":","/","/","d","o","u","b","l","e","c","l","i","c","k",".","n","e","t">>
  /\ det.result.success
  /\ det.result.detectedTrackers = <<<<"g","o","o","g","l","e","-","a","n","a","l","y","t","i","c","s",".","c","o","m">>>>

\* C15: every score calculatePrivacyScore returns is an integer from 0 to
\* 100: a raw total below 0 gives exactly 0, a raw total above 100 gives
\* exactly 100, and any other raw total is returned as it is.
ScoreClampedTo0And100 ==
  /\ \A raw \in -50..150 :
       Clamp(raw) = IF raw < 0 THEN 0 ELSE IF raw > 100 THEN 100 ELSE raw
  /\ (app.f = "calculatePrivacyScore" /\ app.done) =>
       LET raw == TrackerPoints(Len(app.in.trackers)) + SchemePoints(app.in.url)
                    + PolicyPoints(app.in.simplifiedPolicy)
                    + SummaryPoints(app.in.aiSummary)
       IN /\ app.out \in 0..100
          /\ raw < 0 => app.out = 0
          /\ raw > 100 => app.out = 100
          /\ raw \in 0..100 => app.out = raw

\* A site over http with sixteen trackers, a policy of negative keywords and
\* a summary of five risks shared with five high-risk companies scored 0.
NegativeTotalScoredZero ==
  /\ app.f = "calculatePrivacyScore"
  /\ app.done
  /\ Len(app.in.trackers) = 16
  /\ ~StartsWith(app.in.url, <<"h","t","t","p","s">>)
  /\ PolicyPoints(app.in.simplifiedPolicy) = -24
  /\ SummaryPoints(app.in.aiSummary) = -10
  /\ app.out = 0

GradeAndCategoryByThreshold ==
  LET gradeFrom ==
        [g \in {"A+", "A", "A-", "B+", "B", "B-", "C+", "C", "C-", "D+", "D", "D-", "F"} |->
           CASE g = "A+" -> 95 [] g = "A" -> 90 [] g = "A-" -> 85
             [] g = "B+" -> 80 [] g = "B" -> 75 [] g = "B-" -> 70
             [] g = "C+" -> 65 [] g = "C" -> 60 [] g = "C-" -> 55
             [] g = "D+" -> 50 [] g = "D" -> 45 [] g = "D-" -> 40
             [] g = "F" -> 0]
      categoryFrom ==
        [c \in {"Excellent", "Good", "Moderate", "Poor", "Very Poor"} |->
           CASE c = "Excellent" -> 80 [] c = "Good" -> 65 [] c = "Moderate" -> 50
             [] c = "Poor" -> 35 [] c = "Very Poor" -> 0]
  IN /\ (app.f = "getGradeFromScore" /\ app.done) =>
          /\ app.out \in DOMAIN gradeFrom
          /\ gradeFrom[app.out] <= app.in
          /\ \A g \in DOMAIN gradeFrom :
               gradeFrom[g] <= app.in => gradeFrom[g] <= gradeFrom[app.out]
          /\ app.in > 0 =>
               gradeFrom[getGradeFromScore(app.in - 1)] <= gradeFrom[app.out]
     /\ (app.f = "getCategory" /\ app.done) =>
          /\ app.out \in DOMAIN categoryFrom
          /\ categoryFrom[app.out] <= app.in
          /\ \A c \in DOMAIN categoryFrom :
               categoryFrom[c] <= app.in => categoryFrom[c] <= categoryFrom[app.out]
          /\ app.in > 0 =>
               categoryFrom[getCategory(app.in - 1)] <= categoryFrom[app.out]

\* The score 95, the lowest A+, was graded.
LowestAPlusGraded ==
  /\ app.f = "getGradeFromScore"
  /\ app.done
  /\ app.in = 95
  /\ app.out = "A+"
  /\ getGradeFromScore(94) = "A"

\* C18: classifyDomain returns, for every hostname, the name, category and
\* company of the rule of lowest index in the table of which some
\* alternative occurs in the hostname, so any hostname containing
\* doubleclick is Advertising of Google; when no rule matches, a hostname
\* containing a generic keyword is Tracker / Analytics / Unknown and any
\* other string is itself / Unknown / Unknown; a second application gives
\* the same result.
ClassifiedByFirstRule ==
  (app.f = "classifyDomain" /\ app.done) =>
    LET matching == {i \in 1..Len(rules) : RuleMatches(rules[i], app.in)}
    IN /\ app.out = classifyDomain(app.in)
       /\ matching # {} =>
            \E i \in matching :
              /\ \A j \in matching : i <= j
              /\ app.out = [name |-> rules[i].name, category |-> rules[i].category,
                            company |-> rules[i].company]
       /\ Includes(app.in, <<"d","o","u","b","l","e","c","l","i","c","k">>) =>
            app.out.category = "Advertising" /\ app.out.company = "Google"
       /\ matching = {} =>
            IF \/ Includes(app.in, <<"a","n","a","l","y","t","i","c","s">>)
               \/ Includes(app.in, <<"t","r","a","c","k">>)
               \/ Includes(app.in, <<"c","o","l","l","e","c","t">>)
               \/ Includes(app.in, <<"p","i","x","e","l">>)
               \/ Includes(app.in, <<"b","e","a","c","o","n">>)
               \/ Includes(app.in, <<"t","e","l","e","m","e","t","r","y">>)
               \/ Includes(app.in, <<"m","e","t","r","i","c","s">>)
              THEN app.out = [name |-> <<"T","r","a","c","k","e","r">>,
                              category |-> "Analytics", company |-> "Unknown"]
              ELSE app.out = [name |-> app.in, category |-> "Unknown",
                              company |-> "Unknown"]

\* gtm.doubleclick.net, which the rule of Google Ads and the later rule of
\* Google Tag Manager both match, was classified as Google Ads.
EarlierOfTwoRulesWon ==
  /\ app.f = "classifyDomain"
  /\ app.done
  /\ app.in = <<"g","t","m",".","d","o","u","b","l","e","c","l","i","c","k",".","n","e","t">>
  /\ RuleMatches(rules[1], app.in) /\ RuleMatches(rules[2], app.in)
  /\ app.out.name = <<"G","o","o","g","l","e"," ","A","d","s">>
  /\ app.out.category = "Advertising"

\* C19: classifyTrackerDomain classifies a tracker hostname as
\* First-Party/Analytics exactly when the hostname's root domain is the root
\* domain of the site's host, whatever the vendor table says of it.
FirstPartyIffSameRoot ==
  (app.f = "classifyTrackerDomain" /\ app.done) =>
    (app.out.category = "First-Party/Analytics"
       <=> getRootDomain(app.in.domain) = getRootDomain(Hostname(app.in.site)))

\* C20: truncating with the same word budget what sentenceAwareTruncate
\* returned gives that same string again, for every text and every budget.
TruncateIdempotent ==
  (app.f = "sentenceAwareTruncate" /\ app.done) =>
    sentenceAwareTruncate(app.out, app.in.targetWords) = app.out

\* A text of three sentences was cut to its first two by a budget of two
\* words.
ThirdSentenceCut ==
  /\ app.f = "sentenceAwareTruncate"
  /\ app.done
  /\ app.in.text = <<"a", ".", " ", ".", " ", "a">>
  /\ app.in.targetWords = 2
  /\ app.out = <<"a", ".", " ", ".">>

\* C22: when the summary succeeded, the score calculatePrivacyScore returns
\* holds a penalty of 3 points for each of Meta, Google and Amazon that some
\* whoTheyShareWith entry names, at most 15: entries naming the same company
\* count once.
PenaltyPerDistinctCompany ==
  (app.f = "calculatePrivacyScore" /\ app.done /\ app.in.aiSummary.success) =>
    LET shareWith == app.in.aiSummary.summary.whoTheyShareWith.v
        risks == app.in.aiSummary.summary.keyRisks.v
        named == {k \in 1..Len(highRiskCompanies) :
                    \E e \in 1..Len(shareWith) :
                      Includes(shareWith[e], highRiskCompanies[k])}
        penalty == IF 3 * Cardinality(named) < 15
                     THEN 3 * Cardinality(named) ELSE 15
        raw == TrackerPoints(Len(app.in.trackers)) + SchemePoints(app.in.url)
                 + PolicyPoints(app.in.simplifiedPolicy)
                 + (IF Len(risks) <= 2 THEN 15 ELSE IF Len(risks) <= 4 THEN 10 ELSE 5)
                 - penalty
    IN app.out = IF raw < 0 THEN 0 ELSE IF raw > 100 THEN 100 ELSE raw

\* C22 as amended: when the summary succeeded, the score holds a penalty of
\* 3 points for every whoTheyShareWith entry that names Meta, Google or
\* Amazon, at most 15: entries naming the same company count one by one.
PenaltyPerNamingEntry ==
  (app.f = "calculatePrivacyScore" /\ app.done /\ app.in.aiSummary.success) =>
    LET shareWith == app.in.aiSummary.summary.whoTheyShareWith.v
        risks == app.in.aiSummary.summary.keyRisks.v
        naming == {e \in 1..Len(shareWith) :
                     \E k \in 1..Len(highRiskCompanies) :
                       Includes(shareWith[e], highRiskCompanies[k])}
        penalty == IF 3 * Cardinality(naming) < 15
                     THEN 3 * Cardinality(naming) ELSE 15
        raw == TrackerPoints(Len(app.in.trackers)) + SchemePoints(app.in.url)
                 + PolicyPoints(app.in.simplifiedPolicy)
                 + (IF Len(risks) <= 2 THEN 15 ELSE IF Len(risks) <= 4 THEN 10 ELSE 5)
                 - penalty
    IN app.out = IF raw < 0 THEN 0 ELSE IF raw > 100 THEN 100 ELSE raw

\* An https site without trackers or policy whose summary has seven
\* entries, six of them naming three high-risk companies, scored
\* 40 + 10 + 15 - 15.
SixNamingEntriesCapped ==
  /\ app.f = "calculatePrivacyScore"
  /\ app.done
  /\ app.in.aiSummary.success
  /\ Len(app.in.aiSummary.summary.whoTheyShareWith.v) = 7
  /\ Len(app.in.aiSummary.summary.keyRisks.v) = 0
  /\ app.in.trackers = <<>>
  /\ app.in.simplifiedPolicy = Undefined
  /\ app.in.url[5] = "s"
  /\ app.out = 50

\* C23: for a text that is not blank, sentenceAwareTruncate with a budget n
\* of at least one word returns the first sentences of the text up to the first one at which the
\* number of words reaches n, all of them when it never does; and for a text
\* without a sentence boundary that has more than n words it returns the
\* first n words followed by an ellipsis.
TruncatePrefixOrWordCut ==
  (/\ app.f = "sentenceAwareTruncate" /\ app.done
   /\ app.in.targetWords >= 1 /\ Trim(app.in.text) # <<>>) =>
    LET clean == Trim(app.in.text)
        n == app.in.targetWords
        sentences == Sentences(clean, 1, <<>>)
        words == WordsOf(clean)
        wordsUpTo(k) == Len(WordsOf(Join(SubSeq(sentences, 1, k), <<" ">>)))
        reaching == {k \in 1..Len(sentences) : wordsUpTo(k) >= n}
        last == IF reaching = {} THEN Len(sentences)
                ELSE CHOOSE k \in reaching : \A m \in reaching : k <= m
    IN IF Len(sentences) = 1 /\ Len(words) > n
         THEN app.out = Join(SubSeq(words, 1, n), <<" ">>) \o <<"...">>
         ELSE app.out = Join([k \in 1..last |-> Trim(sentences[k])], <<" ">>)

\* ------------------------------------------------- validateSummary alone
\* How many items beyond its cap a list field of an input summary may have.
MaxOver == 1

ItemDigits == <<"0", "1", "2", "3", "4", "5", "6", "7", "8", "9">>

\* n distinct items, in order.
Items(n) ==
  [i \in 1..n |-> <<"i", ItemDigits[(i \div 10) + 1], ItemDigits[(i % 10) + 1]>>]

\* A field that the parsed object does not have.
NotGiven == [t |-> "undefined", v |-> <<>>]

\* What JSON.parse may deliver for a list field with the given cap.
FieldValues(cap) ==
  {Arr(Items(n)) : n \in 0..(cap + MaxOver)} \cup {Txt("text"), NotGiven}

ParsedSummaries ==
  [whatTheyCollect : FieldValues(8), whoTheyShareWith : FieldValues(10),
   howLongTheyKeep : {Txt("One year"), Arr(<<>>), NotGiven},
   keyRisks : FieldValues(6), trackerBreakdown : FieldValues(5)]

InitValidate ==
  /\ InitProgram
  /\ app \in {Applying("validateSummary", summary) : summary \in ParsedSummaries}

\* validateSummary(summary)
ApplyValidate == Applied("validateSummary", validateSummary(app.in))

NextValidate == ApplyValidate

SpecValidate == InitValidate /\ [][NextValidate]_vars

\* A list field after validation: its leading items up to the cap when it
\* was an array, the given default otherwise.
CappedOrDefault(given, cap, default) ==
  IF given.t = "array"
    THEN Arr(SubSeq(given.v, 1, Min(cap, Len(given.v))))
    ELSE default

InformationNotAvailable == Arr(<< <<"Information not available">> >>)

NotAvailableShare ==
  Arr(<< <<"I","n","f","o","r","m","a","t","i","o","n"," ","n","o","t"," ",
           "a","v","a","i","l","a","b","l","e">> >>)

\* C24 as claimed: validateSummary keeps the leading 8, 10, 6 and 5 items
\* of whatTheyCollect, whoTheyShareWith, keyRisks and trackerBreakdown in
\* order, and puts "Information not available" in the place of every field
\* of the wrong type.
EveryWrongFieldNotAvailable ==
  (app.f = "validateSummary" /\ app.done) =>
    /\ app.out.whatTheyCollect =
         CappedOrDefault(app.in.whatTheyCollect, 8, InformationNotAvailable)
    /\ app.out.whoTheyShareWith =
         CappedOrDefault(app.in.whoTheyShareWith, 10, NotAvailableShare)
    /\ app.out.howLongTheyKeep =
         (IF app.in.howLongTheyKeep.t = "string" THEN app.in.howLongTheyKeep
          ELSE Txt("Information not available"))
    /\ app.out.keyRisks =
         CappedOrDefault(app.in.keyRisks, 6, InformationNotAvailable)
    /\ app.out.trackerBreakdown =
         CappedOrDefault(app.in.trackerBreakdown, 5, InformationNotAvailable)

\* C24: validateSummary keeps the leading 8, 10, 6 and 5 items of
\* whatTheyCollect, whoTheyShareWith, keyRisks and trackerBreakdown in order;
\* a whatTheyCollect or whoTheyShareWith that is not an array becomes the
\* one-item list "Information not available", a howLongTheyKeep that is not
\* a string becomes "Information not available", a keyRisks that is not an
\* array becomes the one-item list "Privacy risks could not be determined"
\* and a trackerBreakdown that is not an array becomes the empty list.
WrongFieldsGetTheirOwnDefault ==
  (app.f = "validateSummary" /\ app.done) =>
    /\ app.out.whatTheyCollect =
         CappedOrDefault(app.in.whatTheyCollect, 8, InformationNotAvailable)
    /\ app.out.whoTheyShareWith =
         CappedOrDefault(app.in.whoTheyShareWith, 10, NotAvailableShare)
    /\ app.out.howLongTheyKeep =
         (IF app.in.howLongTheyKeep.t = "string" THEN app.in.howLongTheyKeep
          ELSE Txt("Information not available"))
    /\ app.out.keyRisks =
         CappedOrDefault(app.in.keyRisks, 6,
                         Arr(<< <<"Privacy risks could not be determined">> >>))
    /\ app.out.trackerBreakdown =
         CappedOrDefault(app.in.trackerBreakdown, 5, Arr(<<>>))

\* Nine collected items were cut to eight while the risks and the breakdown,
\* both absent, got their own defaults.
NineCollectedRisksAbsent ==
  /\ app.f = "validateSummary" /\ app.done
  /\ app.in.whatTheyCollect = Arr(Items(9))
  /\ app.in.keyRisks = NotGiven
  /\ app.in.trackerBreakdown = Txt("text")
  /\ app.out.whatTheyCollect = Arr(Items(8))
  /\ app.out.keyRisks = Arr(<< <<"Privacy risks could not be determined">> >>)
  /\ app.out.trackerBreakdown = Arr(<<>>)

\* The tracker details the claim of C25 describes: one entry per hostname as
\* the caller passed them, each classifyDomain of the lower-cased hostname.
DetailsInGivenOrder ==
  [given \in TrackerLists |->
     [i \in 1..Len(given) |->
        LET info == classifyDomain(ToLower(given[i]))
        IN [domain |-> given[i], name |-> info.name,
            category |-> info.category, company |-> info.company]]]

\* C25: a result that generateAIPrivacySummary returns after the credential
\* check, whatever generateContent delivered (a JSON object, text without
\* one, or an error), carries trackerDetails with one entry per hostname of
\* the caller's list, in the order the caller gave them, each classifyDomain
\* of the lower-cased hostname.
DetailsFollowInputOrder ==
  (call.pc = "returned" /\ call.path \in {"json", "text", "raise"}) =>
    call.result.trackerDetails = DetailsInGivenOrder[call.given]

\* ------------------------------------ simulateUserBehavior, await by await
consentSelectors ==
  <<"[data-testid*=consent]", "[class*=cookie] button",
    "[class*=consent] button", "button[class*=accept]", "#cookie-accept",
    ".cookie-consent-accept", "[aria-label*=accept i]">>

\* A step of the simulation is attempted and resolves or rejects.
Stepped(cur, step, ok) ==
  [cur EXCEPT !.sim.steps = @ \cup {step},
              !.sim.failed = IF ok THEN @ ELSE @ \cup {step}]

\* A simulation whose outer catch lets the error reach detectTrackers.
SimulationUncaught(cur) ==
  [cur EXCEPT !.pc = "closing", !.simFailed = TRUE, !.navError = "Error"]

\* The outer catch of simulateUserBehavior: the error is logged and the
\* function returns, the steps after the failing one left out.
SimulationCaught(cur) == [cur EXCEPT !.pc = "settle", !.simFailed = TRUE]

\* page.evaluate(scrollBy) and the wait after it.
SimScrollDown(ok) ==
  /\ det.pc = "simulate"
  /\ DetSet(IF ok THEN [Stepped(det, "scrollDown", TRUE) EXCEPT !.pc = "consent"]
            ELSE SimulationCaught(Stepped(det, "scrollDown", FALSE)))
  /\ UNCHANGED <<now, ticks, dbConnected, credential, store, aiCache, rq, call, batch, app, ext>>

\* One pass of the selector loop: page.$(selector) finds nothing visible
\* ("absent"), the element is clicked and the loop breaks ("clicked"), or
\* one of the calls rejects and the inner catch moves on ("failed").
SimConsent(outcome) ==
  /\ det.pc = "consent"
  /\ LET cur == Stepped(det, "consent", outcome # "failed")
     IN DetSet(IF outcome = "clicked" \/ det.sim.sel = Len(consentSelectors)
                 THEN [cur EXCEPT !.pc = "hover"]
                 ELSE [cur EXCEPT !.sim.sel = @ + 1])
  /\ UNCHANGED <<now, ticks, dbConnected, credential, store, aiCache, rq, call, batch, app, ext>>

\* page.viewport(), page.mouse.move and the wait after it; the inner catch
\* goes on to the dispatched mouseover.
SimHover(ok) ==
  /\ det.pc = "hover"
  /\ DetSet([Stepped(det, "hover", ok) EXCEPT
               !.pc = IF ok THEN "pause" ELSE "mouseover"])
  /\ UNCHANGED <<now, ticks, dbConnected, credential, store, aiCache, rq, call, batch, app, ext>>

\* page.evaluate(dispatch mouseover), its error ignored.
SimMouseover(ok) ==
  /\ det.pc = "mouseover"
  /\ DetSet([Stepped(det, "mouseover", ok) EXCEPT !.pc = "pause"])
  /\ UNCHANGED <<now, ticks, dbConnected, credential, store, aiCache, rq, call, batch, app, ext>>

\* waitForTimeout(page, 1000) between the hover and the scroll back.
SimPause(ok) ==
  /\ det.pc = "pause"
  /\ DetSet(IF ok THEN [Stepped(det, "pause", TRUE) EXCEPT !.pc = "scrollUp"]
            ELSE SimulationCaught(Stepped(det, "pause", FALSE)))
  /\ UNCHANGED <<now, ticks, dbConnected, credential, store, aiCache, rq, call, batch, app, ext>>

\* page.evaluate(scrollTo) and the wait after it.
SimScrollUp(ok) ==
  /\ det.pc = "scrollUp"
  /\ DetSet(IF ok THEN [Stepped(det, "scrollUp", TRUE) EXCEPT !.pc = "settle"]
            ELSE SimulationCaught(Stepped(det, "scrollUp", FALSE)))
  /\ UNCHANGED <<now, ticks, dbConnected, credential, store, aiCache, rq, call, batch, app, ext>>

\* The crawler with the simulation taken step by step.
NextSimulate ==
  \/ \E u \in Urls, o \in DetectOptions : DetectCall(u, o)
  \/ LaunchOk
  \/ \E name \in {"TimeoutError", "Error"} : LaunchFail(name)
  \/ \E q \in PageRequests : Observe(q)
  \/ GotoOk
  \/ \E name \in {"TimeoutError", "Error"} : GotoFail(name)
  \/ \E ok \in BOOLEAN : SimScrollDown(ok)
  \/ \E outcome \in {"absent", "clicked", "failed"} : SimConsent(outcome)
  \/ \E ok \in BOOLEAN : SimHover(ok)
  \/ \E ok \in BOOLEAN : SimMouseover(ok)
  \/ \E ok \in BOOLEAN : SimPause(ok)
  \/ \E ok \in BOOLEAN : SimScrollUp(ok)
  \/ \E ok \in BOOLEAN : Settle(ok)
  \/ Close

SpecSimulate == Init /\ [][NextSimulate]_vars

\* The four interactions of the simulation.
Interactions == {"scrollDown", "consent", "hover", "scrollUp"}

\* simulateUserBehavior has returned into a detectTrackers call that nothing
\* but the simulation has disturbed.
SimulationOver ==
  /\ det.sim.steps # {}
  /\ det.pc \in {"settle", "closing", "returned"}
  /\ "pause" \notin det.sim.failed

\* No step of the simulation leaves detectTrackers with an error or ends
\* its try block.
SimulationNeverFailsDetect ==
  [][det.pc \in {"simulate", "consent", "hover", "mouseover", "pause", "scrollUp"}
       => /\ det'.navError = det.navError
          /\ det'.pc \notin {"closing", "returned", "raised"}]_vars

BatchCallsInOrder ==
  [][/\ (batch.pc # "detect" /\ batch'.pc = "detect") =>
          /\ batch.pc = "loop"
          /\ det.pc \in {"idle", "returned", "raised"}
          /\ det'.url = batch.urls[batch.i]
          /\ det'.made = batch.i
     /\ (batch.pc = "detect" /\ det.pc \notin {"returned", "raised"}) =>
          batch'.pc = "detect"
     /\ batch.pc # "idle" => batch'.i \in {batch.i, batch.i + 1}]_vars

\* C27 as claimed: the detectTrackers calls of a batch run one after another
\* in list order, never two at a time, and the loop reaches the next url
\* only through the delay, whatever the call before it did.
DelayBetweenEveryTwoCalls ==
  /\ BatchCallsInOrder
  /\ [][(batch.pc \notin {"idle", "loop"} /\ batch'.pc = "loop") =>
          batch.pc = "delay"]_vars

\* C27: the detectTrackers calls of a batch run one after another in list
\* order, never two at a time; after a call that returned, with its success
\* or its failure object, the delay elapses before the next call, and after
\* a call that raised the next call follows without the delay.
DelayAfterEveryReturnedCall ==
  /\ BatchCallsInOrder
  /\ [][/\ (batch.pc = "detect" /\ batch'.pc # "detect") =>
             IF det.pc = "returned" THEN batch'.pc = "delay"
             ELSE batch'.pc \in {"loop", "returned"}
        /\ (batch.pc \notin {"idle", "loop"} /\ batch'.pc = "loop") =>
             IF det.pc = "returned" THEN batch.pc = "delay"
             ELSE batch.pc = "detect"]_vars

\* The loop is about to start the third call of a batch: the first call
\* returned trackers and was followed by the delay, the second raised.
ThirdCallAfterRaisedSecond ==
  /\ batch.pc = "loop" /\ batch.i = 3
  /\ batch.results[1].success
  /\ ~batch.results[2].success /\ batch.results[2].error = "Invalid URL"
  /\ det.pc = "raised"

\* -------------------------------------- re-analysis and the credential
\* process.env.GEMINI_API_KEY is read anew by every call: the credential is
\* set or removed between two requests.
CredentialChange ==
  /\ \A r \in Reqs : rq[r].pc \in {"idle", "done"}
  /\ \E r \in Reqs : rq[r].pc = "idle"
  /\ credential' = ~credential
  /\ UNCHANGED <<now, ticks, dbConnected, store, aiCache, rq, det, call, batch, app, ext>>

\* Clock advances to both sides of the two staleness bounds, and to the
\* expiry of the memo.
RenewJumps ==
  {failedCacheDuration - 1, failedCacheDuration, CACHE_EXPIRY,
   successfulCacheDuration - 1, successfulCacheDuration}

NextRenew ==
  \/ \E r \in Reqs, u \in Urls, p \in Policies : Start(r, u, p, FALSE)
  \/ \E r \in Reqs : Lookup(r)
  \/ \E r \in Reqs, e \in NavErrors, d \in SUBSET AllTrackers : Detect(r, e, d)
  \/ \E r \in Reqs, o \in Outcomes : Generate(r, o)
  \/ \E r \in Reqs : UpsertOk(r)
  \/ \E d \in RenewJumps : Tick(d)
  \/ CredentialChange

SpecRenew == Init /\ [][NextRenew]_vars

\* C28: while the memo holds the missing-credential payload under a key,
\* less than 24 hours old, a generateAIPrivacySummary call with that key
\* returns that success-false payload whether or not a credential is set,
\* starts no external call and leaves the memo as it was, and the analysis
\* that made the call persists a failed summary; a call whose external call
\* raised returns success false and leaves the memo as it was, and a call
\* made with a credential and without a memo entry younger than 24 hours
\* under its key starts the external call.
MissingCredentialMemoOutlivesCredential ==
  [][\A r \in Reqs :
       /\ (rq[r].pc = "detect" /\ rq'[r].pc # "detect"
             /\ rq'[r].trackerResult.success) =>
            LET key == CacheKey(rq[r].url, rq'[r].trackerResult.detectedTrackers)
                fresh == /\ key \in DOMAIN aiCache
                         /\ now - aiCache[key].timestamp < 24 * 60 * 60 * 1000
            IN /\ (fresh /\ aiCache[key].data = UnavailableResponse) =>
                    /\ rq'[r].aiPath = "hit"
                    /\ rq'[r].aiSummary = UnavailableResponse
                    /\ rq'[r].siteData.aiSummary.success = FALSE
                    /\ aiCache' = aiCache
               /\ (~fresh /\ credential) => rq'[r].pc = "generate"
       /\ (rq[r].pc = "upsert" /\ rq'[r].pc = "done"
             /\ rq[r].aiPath = "hit" /\ ~rq[r].aiSummary.success) =>
            /\ store'[rq[r].url].aiSummary.success = FALSE
            /\ store'[rq[r].url].lastAnalyzed = rq[r].siteData.lastAnalyzed
       /\ (rq[r].pc = "generate" /\ rq'[r].aiPath = "raise") =>
            /\ aiCache' = aiCache
            /\ rq'[r].aiSummary.success = FALSE
            /\ rq'[r].aiSummary.note = "AI analysis failed"]_vars

\* Thirty minutes after an analysis without a credential, with a credential
\* set by then, the second analysis of the site was served the memoized
\* payload and stored a failed summary again.
FailedAgainDespiteCredential ==
  /\ credential
  /\ now = failedCacheDuration
  /\ rq[2].pc = "done" /\ rq[2].aiPath = "hit"
  /\ rq[2].aiSummary = UnavailableResponse
  /\ rq[2].url \in DOMAIN store
  /\ store[rq[2].url].lastAnalyzed = now
  /\ ~store[rq[2].url].aiSummary.success

\* The validated rule-based fallback for a site and its trackers.
ValidatedFallback(trackers, url) ==
  validateSummary(createFallbackSummary(trackers, url))

\* C29: when generateContent returns text without a JSON object, the
\* generateAIPrivacySummary call of an analysis returns success true with
\* the validated rule-based fallback as its summary and leaves it in the
\* memo under the call's key; the analysis adds the summary points of that
\* fallback to the score, and a stored record with such a summary is served
\* from the store until it is 48 hours old.
UnparsedTextCountsAsSuccess ==
  [][\A r \in Reqs :
       /\ (rq[r].pc = "generate" /\ rq'[r].aiPath = "text") =>
            LET trackers == rq[r].trackerResult.detectedTrackers
                fallback == ValidatedFallback(trackers, rq[r].url)
                risks == Len(fallback.keyRisks.v)
                highRisk == Len(SelectSeq(fallback.whoTheyShareWith.v, IsHighRisk))
                points == (IF risks <= 2 THEN 15 ELSE IF risks <= 4 THEN 10 ELSE 5)
                          - (IF highRisk * 3 < 15 THEN highRisk * 3 ELSE 15)
                total == TrackerPoints(Len(trackers)) + SchemePoints(rq[r].url)
                         + PolicyPoints(rq[r].simplifiedPolicy) + points
            IN /\ rq'[r].aiSummary.success
               /\ rq'[r].aiSummary.summary = fallback
               /\ aiCache'[CacheKey(rq[r].url, trackers)] =
                    [data |-> rq'[r].aiSummary, timestamp |-> now]
               /\ rq'[r].siteData.aiSummary = rq'[r].aiSummary
               /\ rq'[r].siteData.score =
                    (IF total < 0 THEN 0 ELSE IF total > 100 THEN 100 ELSE total)
       /\ (rq[r].pc = "lookup" /\ rq'[r].pc # "lookup"
             /\ rq[r].url \in DOMAIN store) =>
            LET site == store[rq[r].url]
            IN (/\ site.aiSummary.success
                /\ site.aiSummary.summary =
                     ValidatedFallback(site.trackers, site.url)) =>
                 (rq'[r].pc = "done" /\ rq'[r].resp.status = 200)
                   <=> (now - site.lastAnalyzed < 48 * 60 * 60 * 1000)]_vars

\* A record whose summary is the fallback made from unparsed text was served
\* from the store one millisecond short of 48 hours after its analysis.
FallbackRecordServedBefore48Hours ==
  /\ rq[1].pc = "done" /\ rq[1].aiPath = "text"
  /\ rq[2].pc = "done" /\ rq[2].resp.status = 200
  /\ rq[2].url \in DOMAIN store
  /\ store[rq[2].url].aiSummary.success
  /\ store[rq[2].url].aiSummary.summary =
       ValidatedFallback(store[rq[2].url].trackers, rq[2].url)
  /\ now - store[rq[2].url].lastAnalyzed = successfulCacheDuration - 1

\* ------------------------------------------- the extension, await by await
\* The requests a page makes to tracker hosts, and one to its own CDN.
TrackerRequests ==
  {<<"h","t","t","p","s",":","/","/","a","d",".","d","o","u","b","l","e","c","l","i","c","k",".","n","e","t","/","d","d","m","/","a","d">>,
   <<"h","t","t","p","s",":","/","/","w","w","w",".","g","o","o","g","l","e","-","a","n","a","l","y","t","i","c","s",".","c","o","m","/","c","o","l","l","e","c","t">>}

ExtRequests == TrackerRequests \cup {<<"h","t","t","p","s",":","/","/","c","d","n",".","e","x","a","m","p","l","e",".","o","r","g","/","a","p","p",".","j","s">>}

\* A urlFilter of a declarativeNetRequest rule against a request URL: "*"
\* stands for any run of characters.
RECURSIVE UrlFilterMatches(_, _, _, _)
UrlFilterMatches(filter, i, url, j) ==
  IF i > Len(filter) THEN j > Len(url)
  ELSE IF filter[i] = "*"
    THEN \/ UrlFilterMatches(filter, i + 1, url, j)
         \/ j <= Len(url) /\ UrlFilterMatches(filter, i, url, j + 1)
  ELSE j <= Len(url) /\ filter[i] = url[j]
       /\ UrlFilterMatches(filter, i + 1, url, j + 1)

\* Every pattern of getTrackerDomains, in the order of the for-in loop.
RECURSIVE AllDomains(_)
AllDomains(k) ==
  IF k > Len(getTrackerDomains) THEN <<>>
  ELSE getTrackerDomains[k].domains \o AllDomains(k + 1)

FilterMatches ==
  [f \in Range(AllDomains(1)), q \in ExtRequests |-> UrlFilterMatches(f, 1, q, 1)]

\* The browser blocks a request that a dynamic rule matches.
Blocked(q, installed) == \E rule \in installed : FilterMatches[rule.urlFilter, q]

\* newRules of updateBlockingRules: none in research mode, and in stealth
\* mode a block rule for every pattern, numbered from 1 in loop order.  The
\* worker's mode is never anything but these two, so the per-category
\* settings are not consulted.
NewRules(mode) ==
  IF mode = "research" THEN {}
  ELSE {[id |-> k, urlFilter |-> AllDomains(1)[k]] : k \in 1..Len(AllDomains(1))}

\* getSitePrivacyMode(siteUrl)
getSitePrivacyMode(storage, siteUrl) ==
  LET mode == storage.siteMode[TabDomain[siteUrl]]
  IN IF mode \in {"stealth", "research", "none"} THEN mode ELSE "none"

\* setPrivacyMode: mode === 'stealth' ? 'stealth' : 'research'
NormalizedMode(mode) == IF mode = "stealth" THEN "stealth" ELSE "research"

\* The slot of the next run, 0 when limit runs are in flight already.
FreeSlot(e, limit) ==
  IF Cardinality({i \in 1..MaxRuns : e.runs[i].pc # "idle"}) >= limit THEN 0
  ELSE CHOOSE i \in 1..MaxRuns :
         /\ e.runs[i].pc = "idle"
         /\ \A k \in 1..(i - 1) : e.runs[k].pc # "idle"

\* setupRequestBlocking(): updateBlockingRules starts and awaits
\* getDynamicRules().
SetupRequestBlocking(e, limit) ==
  [e EXCEPT !.runs[FreeSlot(e, limit)] = [IdleRun EXCEPT !.pc = "get"]]

ExtSet(e) ==
  /\ ext' = e
  /\ UNCHANGED <<now, ticks, dbConnected, credential, store, aiCache, rq, det, call, batch, app>>

\* A mode button of the popup is clicked: setPrivacyMode stores the global
\* mode; when the stored value changes, the worker's storage listener takes
\* it over and refreshes the rules.
SelectMode(mode, limit) ==
  /\ ext.popup.pc = "idle"
  /\ FreeSlot(ext, limit) # 0
  /\ LET stored == NormalizedMode(mode)
         saved == [ext EXCEPT !.storage.privacyMode = stored,
                              !.popup = [pc |-> "site", mode |-> mode]]
     IN ExtSet(IF ext.storage.privacyMode = stored THEN saved
               ELSE SetupRequestBlocking(
                      [saved EXCEPT !.worker.privacyMode = stored], limit))

\* The click handler goes on: setSitePrivacyMode stores the mode under the
\* active site's domain and reloads the tab, whose onUpdated event makes the
\* worker refresh the rules.
SaveSiteMode(limit) ==
  /\ ext.popup.pc = "site"
  /\ FreeSlot(ext, limit) # 0
  /\ ExtSet(SetupRequestBlocking(
              [ext EXCEPT !.storage.siteMode[TabDomain[ext.active]] = ext.popup.mode,
                          !.popup.pc = "settings"], limit))

\* The click handler ends: setAllCategoryBlocking saves the site's category
\* settings, and the worker's storage listener refreshes the rules.
SaveSettings(limit) ==
  /\ ext.popup.pc = "settings"
  /\ FreeSlot(ext, limit) # 0
  /\ ExtSet(SetupRequestBlocking([ext EXCEPT !.popup.pc = "idle"], limit))

\* chrome.tabs.onActivated: the user switches to the tab of another site.
ActivateTab(url, limit) ==
  /\ ext.popup.pc = "idle"
  /\ url # ext.active
  /\ FreeSlot(ext, limit) # 0
  /\ ExtSet(SetupRequestBlocking([ext EXCEPT !.active = url], limit))

\* The run goes on after its removal (if any): it reads the worker's mode,
\* builds newRules and awaits updateDynamicRules({addRules}) when there are
\* some.
Rebuild(e, i) ==
  LET newRules == NewRules(e.worker.privacyMode)
  IN IF newRules = {} THEN [e EXCEPT !.runs[i] = IdleRun]
     ELSE [e EXCEPT !.runs[i] = [pc |-> "add", ids |-> {}, newRules |-> newRules]]

\* getDynamicRules() resolves with the rules installed.
GetRulesResolves(i) ==
  /\ ext.runs[i].pc = "get"
  /\ LET existingRuleIds == {rule.id : rule \in ext.rules}
     IN ExtSet(IF existingRuleIds # {}
                 THEN [ext EXCEPT !.runs[i].pc = "remove",
                                  !.runs[i].ids = existingRuleIds]
                 ELSE Rebuild(ext, i))

\* updateDynamicRules({removeRuleIds}) resolves.
RemoveResolves(i) ==
  /\ ext.runs[i].pc = "remove"
  /\ ExtSet(Rebuild([ext EXCEPT !.rules =
                       {rule \in @ : rule.id \notin ext.runs[i].ids}], i))

\* updateDynamicRules({addRules}) settles: the browser rejects the call,
\* adding nothing, when a rule's id is installed already; the catch block
\* logs the error.
AddResolves(i) ==
  /\ ext.runs[i].pc = "add"
  /\ LET taken == {rule.id : rule \in ext.rules}
         added == IF \E rule \in ext.runs[i].newRules : rule.id \in taken
                    THEN ext.rules
                    ELSE ext.rules \cup ext.runs[i].newRules
     IN ExtSet([ext EXCEPT !.rules = added, !.runs[i] = IdleRun])

PopupModes == {"stealth", "research", "none"}

\* The extension with at most limit runs of updateBlockingRules in flight.
NextExt(limit) ==
  \/ \E mode \in PopupModes : SelectMode(mode, limit)
  \/ SaveSiteMode(limit)
  \/ SaveSettings(limit)
  \/ \E url \in TabUrls : ActivateTab(url, limit)
  \/ \E i \in 1..MaxRuns : GetRulesResolves(i)
  \/ \E i \in 1..MaxRuns : RemoveResolves(i)
  \/ \E i \in 1..MaxRuns : AddResolves(i)

\* A user who waits for the rules to settle before the next click.
NextSite == NextExt(1)

SpecSite == Init /\ [][NextSite]_vars

\* Clicks and tab events while runs are still in flight.
NextRules == NextExt(MaxRuns)

SpecRules == Init /\ [][NextRules]_vars

\* No updateBlockingRules run is in flight and no click handler is under way.
Quiescent ==
  /\ \A i \in 1..MaxRuns : ext.runs[i].pc = "idle"
  /\ ext.popup.pc = "idle"

\* C21: a mode chosen for one site is saved and applied for that site only:
\* once the rules have settled, with stealth stored for site A, nothing
\* stored for site B and B's tab active, the mode read back for A is
\* stealth, the mode read back for B is none, and no tracker request of the
\* page is blocked.
ModeAppliesToItsSiteOnly ==
  \A a, b \in TabUrls :
    (/\ a # b
     /\ Quiescent
     /\ ext.storage.siteMode[TabDomain[a]] = "stealth"
     /\ ext.storage.siteMode[TabDomain[b]] = "unset"
     /\ ext.active = b) =>
      /\ getSitePrivacyMode(ext.storage, a) = "stealth"
      /\ getSitePrivacyMode(ext.storage, b) = "none"
      /\ \A q \in TrackerRequests : ~Blocked(q, ext.rules)

\* C30: once every updateBlockingRules run has completed, the installed
\* rules are the ones computed from the worker's current privacy mode, none
\* in research mode and one block rule per pattern of every category in
\* stealth mode, and no two installed rules share an id.
RulesFollowCurrentMode ==
  Quiescent =>
    /\ ext.rules = (IF ext.worker.privacyMode = "stealth"
                      THEN {[id |-> k, urlFilter |-> AllDomains(1)[k]] :
                              k \in 1..Len(AllDomains(1))}
                      ELSE {})
    /\ \A r1, r2 \in ext.rules : r1.id = r2.id => r1 = r2

====
